---- MODULE Spec2Model ----
(***************************************************************************)
(* Model of the satellite-scout tracker package: the TLE text parser, the  *)
(* TLE store with its file cache and background updater, and the Celestrak *)
(* HTTP client with its rate limiter and retry loop.                       *)
(*                                                                         *)
(* Three state machines share the module:                                  *)
(*   SpecStore  LoadGroup / Add / GetAll running concurrently on one store *)
(*   SpecLife   Start / Stop and the updater goroutines of one store       *)
(*   SpecFetch  concurrent CelestrakClient.fetch calls on one client       *)
(***************************************************************************)
EXTENDS Integers, Sequences, FiniteSets, TLC

VARIABLES
    \* ---- TLEStore
    catalog,      \* s.catalog : NORAD ID -> TLE
    byGroup,      \* s.byGroup : lowercased group -> sequence of NORAD IDs
    byName,       \* s.byName  : lowercased name  -> sequence of NORAD IDs
    mu,           \* s.mu      : [w |-> holder of the write lock or 0, r |-> number of read locks]
    cacheFile,    \* <CacheDir>/<group>.tle : lowercased group -> text (absent when not in DOMAIN)
    cacheMeta,    \* <CacheDir>/cache_meta.json : lowercased group -> count
    ld,           \* LoadGroup calls in progress: loader -> frame of locals
    rd,           \* GetAll calls in progress: reader -> frame of locals
    calls,        \* number of LoadGroup, Add and AddWithGroup calls made so far
    \* ---- Start / Stop / startUpdater
    stopCh,       \* s.stopCh : "open" or "closed"
    doneCh,       \* s.doneCh : "open" or "closed"
    ctxDone,      \* the context handed to Start is cancelled
    panicked,     \* "" or the function whose panic ended the process
    main,         \* the goroutine calling Start and Stop, one call after another
    loops,        \* the startUpdater goroutines: sequence of frames
    ticks,        \* number of times the update ticker has fired
    \* ---- CelestrakClient
    now,          \* wall clock, seconds
    lastRequest,  \* c.lastRequest
    cmu,          \* c.mu : holder of the mutex or 0
    rateLimit,    \* c.rateLimit, seconds
    maxRetries,   \* c.maxRetries
    fe,           \* fetch calls: fetcher -> frame of locals
    reqLog,       \* every HTTP request put on the wire: sequence of start times
    \* ---- GenerateGroundTrack, PropagateRange
    gin,          \* arguments of the GenerateGroundTrack call and what the kernel answers
    gout,         \* GenerateGroundTrack: position in the call, locals, result
    pin,          \* arguments of the PropagateRange call and what the kernel answers
    pout,         \* PropagateRange: position in the call, result
    \* ---- ParseTLE, ParseTLEBatch
    tin,          \* the text handed to the parser
    tout,         \* what the parser returned
    \* ---- TLEStoreConfig and the update ticker
    cfg,          \* the TLEStoreConfig a store is built from
    tk            \* the store built from it and the ticker of its updater

storeVars == <<catalog, byGroup, byName, mu, cacheFile, cacheMeta, ld, rd, calls>>
lifeVars == <<stopCh, doneCh, ctxDone, panicked, main, loops, ticks>>
fetchVars == <<now, lastRequest, cmu, rateLimit, maxRetries, fe, reqLog>>
calcVars == <<gin, gout, pin, pout, tin, tout, cfg, tk>>
vars == <<storeVars, lifeVars, fetchVars, calcVars>>

-----------------------------------------------------------------------------
(* Bounds of the model.                                                    *)

\* LoadGroup, Add and AddWithGroup calls made on the store in one run
MaxCalls == 2
\* last second of the wall clock, and largest c.maxRetries a client is built with
MaxTime == 3
MaxRetriesTried == 1
\* Start calls, Stop calls and ticks of the update ticker in one run
MaxStarts == 2
MaxStops == 2
MaxTicks == 1
\* last millisecond of the times handed to GenerateGroundTrack and
\* PropagateRange, and the largest step
MaxTrackT == 3
MaxStep == 2
\* records in the text handed to the parser
MaxRecords == 2
\* the largest update_interval tried and the last tick of the ticker's clock,
\* in half minutes
MaxInterval == 3
MaxClock == 4

-----------------------------------------------------------------------------
(* TLE text.  A text is the sequence of its lines (strings.Split on "\n"), *)
(* a line is what the parser looks at: its first character, its length,    *)
(* whether the checksum digit matches, whether the numeric fields parse,   *)
(* columns 3-7 (the catalog number) and the element-set number it carries. *)

TLELineLength == 69

Range(seq) == {seq[i] : i \in DOMAIN seq}

\* the decimal digits, and a catalog number below 100000 written in five columns
Digits == <<"0", "1", "2", "3", "4", "5", "6", "7", "8", "9">>
Cols(id) == <<Digits[((id \div 10000) % 10) + 1], Digits[((id \div 1000) % 10) + 1],
              Digits[((id \div 100) % 10) + 1], Digits[((id \div 10) % 10) + 1],
              Digits[(id % 10) + 1]>>

Blank == [c |-> "", len |-> 0, ck |-> FALSE, num |-> FALSE, cat |-> <<>>, rev |-> 0, txt |-> ""]
NameLine(n) == [c |-> "n", len |-> 3, ck |-> FALSE, num |-> FALSE, cat |-> <<>>, rev |-> 0, txt |-> n]
Line1(id, rev) == [c |-> "1", len |-> 69, ck |-> TRUE, num |-> TRUE, cat |-> Cols(id), rev |-> rev, txt |-> ""]
Line2(id, rev) == [c |-> "2", len |-> 69, ck |-> TRUE, num |-> TRUE, cat |-> Cols(id), rev |-> rev, txt |-> ""]
BadChecksum(l) == [l EXCEPT !.ck = FALSE]

NoTLE == [NoradID |-> 0, Name |-> "", Line1 |-> Blank, Line2 |-> Blank]
MkTLE(id, name, rev) == [NoradID |-> id, Name |-> name, Line1 |-> Line1(id, rev), Line2 |-> Line2(id, rev)]

\* strings.ToLower on the strings the model uses
ToLower(s) ==
    CASE s = "ISS" -> "iss"
      [] s = "SAT" -> "sat"
      [] s = "G1" -> "g1"
      [] s = "G2" -> "g2"
      [] OTHER -> s

validateChecksum(line) == line.len >= TLELineLength /\ line.ck

\* strings.TrimSpace on a sequence of characters: what lies between the first and
\* the last character that is not a space
TrimSpace(s) ==
    IF \A i \in DOMAIN s : s[i] = " " THEN <<>>
    ELSE SubSeq(s, CHOOSE i \in DOMAIN s : s[i] # " " /\ \A j \in 1..(i - 1) : s[j] = " ",
                   CHOOSE i \in DOMAIN s : s[i] # " " /\ \A j \in (i + 1)..Len(s) : s[j] = " ")

DigitValue(ch) == (CHOOSE i \in DOMAIN Digits : Digits[i] = ch) - 1
\* the value of the first n of a sequence of decimal digits, and of all of them
RECURSIVE DecimalPrefix(_, _)
DecimalPrefix(s, n) == IF n = 0 THEN 0 ELSE 10 * DecimalPrefix(s, n - 1) + DigitValue(s[n])
DecimalValue(s) == DecimalPrefix(s, Len(s))
\* strconv.Atoi: an optional sign, then one decimal digit or more
Atoi(s) ==
    IF s = <<>> THEN [err |-> "syntax", n |-> 0]
    ELSE IF Head(s) \in {"+", "-"}
    THEN IF Len(s) = 1 \/ \E i \in 2..Len(s) : s[i] \notin Range(Digits)
         THEN [err |-> "syntax", n |-> 0]
         ELSE [err |-> "", n |-> (IF Head(s) = "-" THEN -1 ELSE 1) * DecimalValue(Tail(s))]
    ELSE IF \E i \in DOMAIN s : s[i] \notin Range(Digits)
    THEN [err |-> "syntax", n |-> 0]
    ELSE [err |-> "", n |-> DecimalValue(s)]

\* alpha5Map (lines 27-32): A=10 ... Z=33, without I and O
Alpha5Letters == <<"A", "B", "C", "D", "E", "F", "G", "H", "J", "K", "L", "M", "N",
                   "P", "Q", "R", "S", "T", "U", "V", "W", "X", "Y", "Z">>
UpperLetters == Range(Alpha5Letters) \cup {"I", "O"}

\* parseNoradID (lines 400-437): the Alpha-5 branch given what Atoi made of the
\* four digits after the letter, the plain branch given what Atoi made of the field
alpha5ID(letter, rest) ==
    IF rest.err # "" THEN [err |-> "alpha5-invalid", id |-> 0]
    ELSE [err |-> "",
          id |-> (9 + (CHOOSE i \in DOMAIN Alpha5Letters : Alpha5Letters[i] = letter)) * 10000
                 + rest.n]
plainID(a) ==
    IF a.err # "" THEN [err |-> "field-numeric", id |-> 0] ELSE [err |-> "", id |-> a.n]
parseNoradID(s) ==
    IF s = <<>> THEN [err |-> "alpha5-invalid", id |-> 0]
    ELSE IF s[1] \in UpperLetters
    THEN IF s[1] \notin Range(Alpha5Letters) THEN [err |-> "alpha5-invalid", id |-> 0]
         ELSE IF Len(s) < 5 THEN [err |-> "alpha5-invalid", id |-> 0]
         ELSE alpha5ID(s[1], Atoi(SubSeq(s, 2, 5)))
    ELSE plainID(Atoi(s))

\* parseTLELines (lines 178-229); parseTLEFields is its part after the checksums
\* (lines 196-229), given the catalog numbers parsed from columns 3-7 of both
\* lines; each field is trimmed and parsed once (the sets below hold one value)
parseTLEFields(name, line1, line2, id1, id2) ==
    IF id1.err # "" THEN [err |-> id1.err, tle |-> NoTLE]
    ELSE IF ~line1.num \/ ~line2.num THEN [err |-> "field-numeric", tle |-> NoTLE]
    ELSE IF id2.err # "" THEN [err |-> id2.err, tle |-> NoTLE]
    ELSE IF id1.id # id2.id THEN [err |-> "catalog-mismatch", tle |-> NoTLE]
    ELSE [err |-> "", tle |-> [NoradID |-> id1.id, Name |-> name, Line1 |-> line1,
                               Line2 |-> line2]]
parseTLELines(name, line1, line2) ==
    IF line1.len < TLELineLength \/ line2.len < TLELineLength
    THEN [err |-> "line-too-short", tle |-> NoTLE]
    ELSE IF line1.c # "1" \/ line2.c # "2"
    THEN [err |-> "line-number", tle |-> NoTLE]
    ELSE IF ~validateChecksum(line1) \/ ~validateChecksum(line2)
    THEN [err |-> "checksum", tle |-> NoTLE]
    ELSE CHOOSE r \in {parseTLEFields(name, line1, line2, id1, id2) :
                          id1 \in {parseNoradID(s) : s \in {TrimSpace(line1.cat)}},
                          id2 \in {parseNoradID(s) : s \in {TrimSpace(line2.cat)}}} : TRUE

ParseTLE(lines) ==
    IF Len(lines) < 2
    THEN [err |-> "format", tle |-> NoTLE]
    ELSE IF lines[1].c = ""
    THEN [err |-> "format", tle |-> NoTLE]
    ELSE IF lines[1].c = "1"
    THEN parseTLELines("", lines[1], lines[2])
    ELSE IF lines[1].c = "2"
    THEN [err |-> "format", tle |-> NoTLE]
    ELSE IF Len(lines) < 3
    THEN [err |-> "format", tle |-> NoTLE]
    ELSE parseTLELines(lines[1].txt, lines[2], lines[3])

tryParseTLE(lines) ==
    \/ Len(lines) = 2 /\ lines[1].c = "1" /\ lines[2].c = "2"
    \/ Len(lines) = 3 /\ lines[1].c # "1" /\ lines[1].c # "2"

\* the loop of ParseTLEBatch from line i on, with the buffer cur and the
\* records tles collected so far
RECURSIVE ParseFrom(_, _, _, _)
ParseFrom(lines, i, cur, tles) ==
    IF i > Len(lines)
    THEN IF Len(cur) >= 2
         THEN LET p == ParseTLE(cur)
              IN IF p.err # "" THEN [err |-> p.err, tles |-> <<>>]
                 ELSE [err |-> "", tles |-> Append(tles, p.tle)]
         ELSE [err |-> "", tles |-> tles]
    ELSE IF lines[i].c = ""
    THEN IF Len(cur) >= 2
         THEN LET p == ParseTLE(cur)
              IN IF p.err # "" THEN [err |-> p.err, tles |-> <<>>]
                 ELSE ParseFrom(lines, i + 1, <<>>, Append(tles, p.tle))
         ELSE ParseFrom(lines, i + 1, cur, tles)
    ELSE LET cur2 == Append(cur, lines[i])
         IN IF tryParseTLE(cur2)
            THEN LET p == ParseTLE(cur2)
                 IN IF p.err # "" THEN [err |-> p.err, tles |-> <<>>]
                    ELSE ParseFrom(lines, i + 1, <<>>, Append(tles, p.tle))
            ELSE ParseFrom(lines, i + 1, cur2, tles)

ParseTLEBatch(data) == ParseFrom(data, 1, <<>>, <<>>)

\* TLE.String: the lines of one record
TLEString(tle) ==
    IF tle.Name # "" THEN <<NameLine(tle.Name), tle.Line1, tle.Line2>>
    ELSE <<tle.Line1, tle.Line2>>

\* the text saveGroupToCache builds: every record followed by "\n"
RECURSIVE CacheText(_)
CacheText(tles) ==
    IF tles = <<>> THEN <<Blank>>
    ELSE TLEString(Head(tles)) \o CacheText(Tail(tles))

-----------------------------------------------------------------------------
(* The texts the upstream server and the cache directory may hold.         *)

ISS0 == MkTLE(1, "ISS", 0)
ISS1 == MkTLE(1, "SAT", 1)
NONAME == MkTLE(2, "", 0)
Junk == [c |-> "n", len |-> 6, ck |-> FALSE, num |-> FALSE, cat |-> <<>>, rev |-> 0, txt |-> "junk"]

TxtEmpty == <<Blank>>
TxtJunk == <<Junk>>
TxtHtml == <<Junk, Junk, Junk>>
TxtA == TLEString(ISS0) \o TLEString(NONAME)
TxtB == TLEString(ISS1) \o <<Blank>>
TxtBad == TLEString(NONAME) \o <<NameLine("ISS"), BadChecksum(Line1(1, 1)), Line2(1, 1)>>

Bodies == {TxtJunk, TxtA, TxtB, TxtBad}

\* what CelestrakClient.fetch hands to FetchGroup: an error or a body
UpstreamOutcomes ==
    {[err |-> e, body |-> <<>>] : e \in {"server-error"}}
        \cup {[err |-> "", body |-> b] : b \in Bodies}

GroupArgs == {"g1", "G2"}

-----------------------------------------------------------------------------
(* CelestrakClient.FetchGroup, seen from the store.                        *)

\* the batch p as the caller returns it: its error wrapped as e
Wrapped(p, e) == IF p.err # "" THEN [err |-> e, tles |-> <<>>] ELSE p

FetchGroup(out) ==
    IF out.err # "" THEN [err |-> out.err, tles |-> <<>>]
    ELSE Wrapped(ParseTLEBatch(out.body), "parse")

-----------------------------------------------------------------------------
(* TLEStore: the in-memory catalog and its indexes.                        *)

Put(f, k, v) == [x \in DOMAIN f \cup {k} |-> IF x = k THEN v ELSE f[x]]
EmptyMap == [x \in {} |-> 0]

\* an addToIndex that appends without looking
addToIndexAlways(index, key, id) ==
    Put(index, key, Append(IF key \in DOMAIN index THEN index[key] ELSE <<>>, id))

addToIndex(index, key, id) ==
    LET ids == IF key \in DOMAIN index THEN index[key] ELSE <<>>
    IN IF id \in Range(ids) THEN index ELSE Put(index, key, Append(ids, id))

\* an addInternal that starts the catalog afresh
addInternalFresh(st, tle, group) ==
    IF tle = NoTLE THEN st
    ELSE [catalog |-> [x \in {tle.NoradID} |-> tle],
          byGroup |-> IF group # "" THEN addToIndex(st.byGroup, ToLower(group), tle.NoradID)
                      ELSE st.byGroup,
          byName |-> IF tle.Name # "" THEN addToIndex(st.byName, ToLower(tle.Name), tle.NoradID)
                     ELSE st.byName]

\* st is the triple of maps the store lock protects
addInternal(st, tle, group) ==
    IF tle = NoTLE THEN st
    ELSE [catalog |-> Put(st.catalog, tle.NoradID, tle),
          byGroup |-> IF group # "" THEN addToIndex(st.byGroup, ToLower(group), tle.NoradID)
                      ELSE st.byGroup,
          byName |-> IF tle.Name # "" THEN addToIndex(st.byName, ToLower(tle.Name), tle.NoradID)
                     ELSE st.byName]

Store == [catalog |-> catalog, byGroup |-> byGroup, byName |-> byName]

SetStore(st) ==
    /\ catalog' = st.catalog
    /\ byGroup' = st.byGroup
    /\ byName' = st.byName

\* slices.Collect(maps.Values(s.catalog)), as a set
CatalogValues(cat) == {cat[i] : i \in DOMAIN cat}

\* sync.RWMutex
RLockIgnoresWriter(m) == TRUE
CanRLock(m) == m.w = 0
CanLock(m) == m.w = 0 /\ m.r = 0

\* loadGroupFromCache: os.ReadFile then ParseTLEBatch
loadGroupFromCache(files, group) ==
    LET key == ToLower(group)
    IN IF key \notin DOMAIN files THEN [err |-> "cache-read", tles |-> <<>>]
       ELSE Wrapped(ParseTLEBatch(files[key]), "cache-parse")

-----------------------------------------------------------------------------
(* SpecStore: LoadGroup, Add, AddWithGroup and GetAll on one store.        *)

Loaders == {1, 2}
Readers == {1}


IdleLoad == [pc |-> "idle", group |-> "", tles |-> <<>>, idx |-> 0, fromCache |-> FALSE,
             upErr |-> FALSE, cacheErr |-> FALSE, saveErr |-> FALSE, res |-> "",
             meta |-> EmptyMap, pre |-> {}, bundles |-> {}, metaErr |-> FALSE]
IdleRead == [pc |-> "idle"]

InitCaches == {EmptyMap} \cup {[g \in {"g1"} |-> t] : t \in {TxtA, TxtB, TxtHtml}}

\* a LoadGroup that takes the store lock on entry
LGBeginLocked(l, g) ==
    /\ ld[l].pc \in {"idle", "done"}
    /\ calls < MaxCalls
    /\ calls' = calls + 1
    /\ CanLock(mu)
    /\ mu' = [mu EXCEPT !.w = l]
    /\ ld' = [ld EXCEPT ![l] = [IdleLoad EXCEPT !.pc = "fetching", !.group = g]]
    /\ UNCHANGED <<catalog, byGroup, byName, cacheFile, cacheMeta, rd>>

\* LoadGroup is entered (line 562) and the request to Celestrak is under way
LGBegin(l, g) ==
    /\ ld[l].pc \in {"idle", "done"}
    /\ calls < MaxCalls
    /\ calls' = calls + 1
    /\ ld' = [ld EXCEPT ![l] = [IdleLoad EXCEPT !.pc = "fetching", !.group = g]]
    /\ UNCHANGED <<catalog, byGroup, byName, mu, cacheFile, cacheMeta, rd>>

\* s.client.FetchGroup returns (line 570)
LGFetchDone(l, out) ==
    /\ ld[l].pc = "fetching"
    /\ LET f == FetchGroup(out)
       IN ld' = [ld EXCEPT ![l].pc = IF f.err # "" THEN "cacheRead" ELSE "saveFile",
                           ![l].upErr = f.err # "",
                           ![l].tles = f.tles,
                           ![l].bundles = IF out.err = "" THEN {out.body} ELSE {}]
    /\ UNCHANGED <<catalog, byGroup, byName, mu, cacheFile, cacheMeta, rd, calls>>

\* a LoadGroup that gives up as soon as Celestrak fails
LGCacheReadNoFallback(l) ==
    /\ ld[l].pc = "cacheRead"
    /\ ld' = [ld EXCEPT ![l].pc = "done", ![l].res = "load-failed",
                        ![l].cacheErr = loadGroupFromCache(cacheFile, ld[l].group).err # ""]
    /\ UNCHANGED <<catalog, byGroup, byName, mu, cacheFile, cacheMeta, rd, calls>>

\* the fallback: loadGroupFromCache (lines 578-590)
LGCacheRead(l) ==
    /\ ld[l].pc = "cacheRead"
    /\ LET c == loadGroupFromCache(cacheFile, ld[l].group)
       IN ld' = [ld EXCEPT ![l].pc = IF c.err # "" THEN "done" ELSE "lock",
                           ![l].cacheErr = c.err # "",
                           ![l].res = IF c.err # "" THEN "load-failed" ELSE "",
                           ![l].fromCache = c.err = "",
                           ![l].tles = c.tles,
                           ![l].bundles = ld[l].bundles \cup
                               (IF ToLower(ld[l].group) \in DOMAIN cacheFile
                                THEN {cacheFile[ToLower(ld[l].group)]} ELSE {})]
    /\ UNCHANGED <<catalog, byGroup, byName, mu, cacheFile, cacheMeta, rd, calls>>

\* saveGroupToCache, first half: MkdirAll and WriteFile of <group>.tle (lines 764-781)
LGSaveFile(l, ioOk) ==
    /\ ld[l].pc = "saveFile"
    /\ IF ioOk
       THEN /\ cacheFile' = Put(cacheFile, ToLower(ld[l].group), CacheText(ld[l].tles))
            /\ ld' = [ld EXCEPT ![l].pc = "metaRead"]
       ELSE /\ cacheFile' = cacheFile
            /\ ld' = [ld EXCEPT ![l].pc = "lock", ![l].saveErr = TRUE]
    /\ UNCHANGED <<catalog, byGroup, byName, mu, cacheMeta, rd, calls>>

\* saveGroupToCache: loadCacheMeta (lines 784-788)
LGMetaRead(l) ==
    /\ ld[l].pc = "metaRead"
    /\ ld' = [ld EXCEPT ![l].pc = "metaWrite", ![l].meta = cacheMeta]
    /\ UNCHANGED <<catalog, byGroup, byName, mu, cacheFile, cacheMeta, rd, calls>>

\* saveGroupToCache: the entry is set and saveCacheMeta writes the file (lines 790-800)
LGMetaWrite(l, ioOk) ==
    /\ ld[l].pc = "metaWrite"
    /\ cacheMeta' = IF ioOk THEN Put(ld[l].meta, ToLower(ld[l].group), Len(ld[l].tles))
                    ELSE cacheMeta
    /\ ld' = [ld EXCEPT ![l].pc = "lock", ![l].metaErr = ~ioOk]
    /\ UNCHANGED <<catalog, byGroup, byName, mu, cacheFile, rd, calls>>

\* s.mu.Lock() (line 602)
LGLock(l) ==
    /\ ld[l].pc = "lock"
    /\ CanLock(mu)
    /\ mu' = [mu EXCEPT !.w = l]
    /\ ld' = [ld EXCEPT ![l].pc = "merge", ![l].idx = 1, ![l].pre = CatalogValues(catalog)]
    /\ UNCHANGED <<catalog, byGroup, byName, cacheFile, cacheMeta, rd, calls>>

\* one turn of the loop over tles (lines 603-605)
LGMerge(l) ==
    /\ ld[l].pc = "merge"
    /\ ld[l].idx <= Len(ld[l].tles)
    /\ SetStore(addInternal(Store, ld[l].tles[ld[l].idx], ld[l].group))
    /\ ld' = [ld EXCEPT ![l].idx = ld[l].idx + 1]
    /\ UNCHANGED <<mu, cacheFile, cacheMeta, rd, calls>>

\* the loop is over: s.mu.Unlock() and return nil (lines 606-615)
LGUnlock(l) ==
    /\ ld[l].pc = "merge"
    /\ ld[l].idx > Len(ld[l].tles)
    /\ mu' = [mu EXCEPT !.w = 0]
    /\ ld' = [ld EXCEPT ![l].pc = "done", ![l].res = "ok", ![l].idx = 0,
                        ![l].tles = <<>>, ![l].pre = {}, ![l].meta = EmptyMap]
    /\ UNCHANGED <<catalog, byGroup, byName, cacheFile, cacheMeta, rd, calls>>

\* Add (group "") and AddWithGroup: Lock, addInternal, Unlock (lines 484-497)
AddWithGroup(tle, group) ==
    /\ calls < MaxCalls
    /\ calls' = calls + 1
    /\ CanLock(mu)
    /\ SetStore(addInternal(Store, tle, group))
    /\ UNCHANGED <<mu, cacheFile, cacheMeta, ld, rd>>

\* GetAll: s.mu.RLock() (line 476)
GetAllRLock(r) ==
    /\ rd[r].pc = "idle"
    /\ CanRLock(mu)
    /\ mu' = [mu EXCEPT !.r = mu.r + 1]
    /\ rd' = [rd EXCEPT ![r].pc = "rlocked"]
    /\ UNCHANGED <<catalog, byGroup, byName, cacheFile, cacheMeta, ld, calls>>

\* GetAll: the values of the catalog as it is now are collected and returned,
\* the read lock is released (lines 477-479)
GetAllCollect(r) ==
    /\ rd[r].pc = "rlocked"
    /\ mu' = [mu EXCEPT !.r = mu.r - 1]
    /\ rd' = [rd EXCEPT ![r].pc = "idle"]
    /\ UNCHANGED <<catalog, byGroup, byName, cacheFile, cacheMeta, ld, calls>>

IdleMain == [pc |-> "idle", i |-> 0, lastErr |-> "", starts |-> 0, stops |-> 0, returned |-> 0,
             att |-> <<>>]

\* the values the other two machines leave alone
LifeIdle ==
    /\ stopCh = "open" /\ doneCh = "open" /\ ctxDone = FALSE /\ panicked = ""
    /\ main = IdleMain /\ loops = <<>>
FetchIdle ==
    /\ now = 0 /\ lastRequest = 0 /\ cmu = 0 /\ rateLimit = 0 /\ maxRetries = 0
    /\ fe = <<>> /\ reqLog = <<>>
ParseIdle == tin = <<>> /\ tout = <<>>
TickerIdle == cfg = <<>> /\ tk = <<>>
CalcIdle ==
    /\ gin = <<>> /\ gout = <<>> /\ pin = <<>> /\ pout = <<>>
    /\ ParseIdle /\ TickerIdle

InitStore ==
    /\ catalog = EmptyMap /\ byGroup = EmptyMap /\ byName = EmptyMap
    /\ mu = [w |-> 0, r |-> 0]
    /\ cacheFile \in InitCaches
    /\ cacheMeta = EmptyMap
    /\ ld = [l \in Loaders |-> IdleLoad]
    /\ rd = [r \in Readers |-> IdleRead]
    /\ calls = 0
    /\ ticks = 0
    /\ LifeIdle /\ FetchIdle /\ CalcIdle

NextStore ==
    /\ \/ \E l \in Loaders, g \in GroupArgs : LGBegin(l, g)
       \/ \E l \in Loaders, out \in UpstreamOutcomes : LGFetchDone(l, out)
       \/ \E l \in Loaders : LGCacheRead(l)
       \/ \E l \in Loaders, ioOk \in BOOLEAN : LGSaveFile(l, ioOk)
       \/ \E l \in Loaders : LGMetaRead(l)
       \/ \E l \in Loaders, ioOk \in BOOLEAN : LGMetaWrite(l, ioOk)
       \/ \E l \in Loaders : LGLock(l)
       \/ \E l \in Loaders : LGMerge(l)
       \/ \E l \in Loaders : LGUnlock(l)
       \/ \E t \in {ISS1, NONAME}, g \in {"", "g1"} : AddWithGroup(t, g)
       \/ \E r \in Readers : GetAllRLock(r)
       \/ \E r \in Readers : GetAllCollect(r)
    /\ UNCHANGED <<lifeVars, fetchVars, calcVars>>

SpecStore == InitStore /\ [][NextStore]_vars

-----------------------------------------------------------------------------
(* SpecLife: Start, Stop and the updater goroutines.  One goroutine (main)  *)
(* calls Start and Stop one after another; every Start runs LoadAllGroups   *)
(* and then spawns startUpdater.  A LoadGroup is one step here.             *)

ConfigGroups == <<"g1", "G2">>
LifeOutcomes == {[err |-> "server-error", body |-> <<>>], [err |-> "", body |-> TxtB]}

RECURSIVE MergeAll(_, _, _)
MergeAll(st, tles, group) ==
    IF tles = <<>> THEN st
    ELSE MergeAll(addInternal(st, Head(tles), group), Tail(tles), group)

\* fmt.Errorf("%w: %s (celestrak and cache both failed)", ErrLoadGroupFailed, group)
ErrLoadGroupFailed(group) == "load-failed: " \o group

\* LoadGroup from entry to return (lines 562-616): the new store, cache file,
\* cache metadata and the error returned
\* f is what FetchGroup returned, c what loadGroupFromCache returns
LoadGroupFrom(group, f, c) ==
    LET key == ToLower(group)
    IN IF f.err = ""
       THEN [st |-> MergeAll(Store, f.tles, group),
             files |-> Put(cacheFile, key, CacheText(f.tles)),
             meta |-> Put(cacheMeta, key, Len(f.tles)),
             err |-> "", tles |-> f.tles]
       ELSE IF c.err = ""
       THEN [st |-> MergeAll(Store, c.tles, group), files |-> cacheFile, meta |-> cacheMeta,
             err |-> "", tles |-> c.tles]
       ELSE [st |-> Store, files |-> cacheFile, meta |-> cacheMeta,
             err |-> ErrLoadGroupFailed(group), tles |-> <<>>]
\* FetchGroup and loadGroupFromCache are evaluated once (the sets hold one value)
LoadGroupResult(group, out) ==
    CHOOSE r \in {LoadGroupFrom(group, f, c) :
                     f \in {FetchGroup(out)}, c \in {loadGroupFromCache(cacheFile, group)}} : TRUE

\* LoadAllGroups: lastErr = err when err != nil (lines 542-547), keeping the
\* first error
KeepFirstErr(lastErr, err) == IF lastErr # "" THEN lastErr ELSE err
\* LoadAllGroups: lastErr = err when err != nil (lines 542-547)
NextLastErr(lastErr, err) == IF err # "" THEN err ELSE lastErr

\* what one turn of the loop of LoadAllGroups did: the group, the error of
\* its LoadGroup and the catalog numbers loaded
Attempt(group, r) ==
    [group |-> group, err |-> r.err, ids |-> {r.tles[j].NoradID : j \in DOMAIN r.tles}]

ApplyLoadGroup(r) ==
    /\ SetStore(r.st)
    /\ cacheFile' = r.files
    /\ cacheMeta' = r.meta

Alive == panicked = ""
LiveLoops == {k \in DOMAIN loops : loops[k].pc # "exited"}

\* Start is called (line 393); LoadAllGroups begins
StartCall ==
    /\ Alive /\ main.pc = "idle" /\ main.starts < MaxStarts
    /\ main' = [main EXCEPT !.pc = "startLoad", !.i = 1, !.lastErr = "", !.att = <<>>,
                            !.starts = main.starts + 1]
    /\ UNCHANGED <<catalog, byGroup, byName, cacheFile, cacheMeta, stopCh, doneCh, ctxDone,
                   panicked, loops, ticks>>

\* LoadAllGroups in Start: one turn of the loop over s.config.Groups (lines 541-549)
StartLoadGroup(out) ==
    /\ Alive /\ main.pc = "startLoad" /\ main.i <= Len(ConfigGroups)
    /\ \E r \in {LoadGroupResult(ConfigGroups[main.i], out)} :
          /\ ApplyLoadGroup(r)
          /\ main' = [main EXCEPT !.i = main.i + 1,
                                  !.lastErr = NextLastErr(main.lastErr, r.err),
                                  !.att = Append(main.att, Attempt(ConfigGroups[main.i], r))]
    /\ UNCHANGED <<stopCh, doneCh, ctxDone, panicked, loops, ticks>>

\* go s.startUpdater(ctx); return nil (lines 406-408)
StartSpawn ==
    /\ Alive /\ main.pc = "startLoad" /\ main.i > Len(ConfigGroups)
    /\ loops' = Append(loops, [pc |-> "select", i |-> 0, lastErr |-> "", att |-> <<>>])
    /\ main' = [main EXCEPT !.pc = "idle", !.i = 0, !.lastErr = "", !.att = <<>>]
    /\ UNCHANGED <<catalog, byGroup, byName, cacheFile, cacheMeta, stopCh, doneCh, ctxDone,
                   panicked, ticks>>

\* Stop: close(s.stopCh) (line 414); closing a closed channel panics
StopCall ==
    /\ Alive /\ main.pc = "idle" /\ main.stops < MaxStops
    /\ IF stopCh = "closed"
       THEN /\ panicked' = "Stop"
            /\ main' = [main EXCEPT !.stops = main.stops + 1]
            /\ stopCh' = stopCh
       ELSE /\ stopCh' = "closed"
            /\ main' = [main EXCEPT !.pc = "stopWait", !.stops = main.stops + 1]
            /\ panicked' = panicked
    /\ UNCHANGED <<catalog, byGroup, byName, cacheFile, cacheMeta, doneCh, ctxDone, loops, ticks>>

\* Stop: <-s.doneCh is over, Stop returns (lines 415-417)
StopReturn ==
    /\ Alive /\ main.pc = "stopWait" /\ doneCh = "closed"
    /\ main' = [main EXCEPT !.pc = "idle", !.returned = main.returned + 1]
    /\ UNCHANGED <<catalog, byGroup, byName, cacheFile, cacheMeta, stopCh, doneCh, ctxDone,
                   panicked, loops, ticks>>

\* the owner of the context handed to Start cancels it
CancelCtx ==
    /\ Alive /\ ~ctxDone
    /\ ctxDone' = TRUE
    /\ UNCHANGED <<catalog, byGroup, byName, cacheFile, cacheMeta, stopCh, doneCh, panicked,
                   main, loops, ticks>>

\* startUpdater: select takes <-ctx.Done() or <-s.stopCh and returns; the
\* deferred close(s.doneCh) runs (lines 651, 658-663)
LoopExit(k) ==
    /\ Alive /\ k \in DOMAIN loops /\ loops[k].pc = "select"
    /\ ctxDone \/ stopCh = "closed"
    /\ loops' = [loops EXCEPT ![k].pc = "exited"]
    /\ IF doneCh = "closed"
       THEN panicked' = "startUpdater" /\ doneCh' = doneCh
       ELSE doneCh' = "closed" /\ panicked' = panicked
    /\ UNCHANGED <<catalog, byGroup, byName, cacheFile, cacheMeta, stopCh, ctxDone, main, ticks>>

\* startUpdater: select takes <-ticker.C (line 664); LoadAllGroups begins
LoopTick(k) ==
    /\ Alive /\ k \in DOMAIN loops /\ loops[k].pc = "select"
    /\ ticks < MaxTicks
    /\ ticks' = ticks + 1
    /\ loops' = [loops EXCEPT ![k].pc = "load", ![k].i = 1, ![k].lastErr = "", ![k].att = <<>>]
    /\ UNCHANGED <<catalog, byGroup, byName, cacheFile, cacheMeta, stopCh, doneCh, ctxDone,
                   panicked, main>>

\* LoadAllGroups in the updater: one turn of the loop over s.config.Groups
LoopLoadGroup(k, out) ==
    /\ Alive /\ k \in DOMAIN loops /\ loops[k].pc = "load" /\ loops[k].i <= Len(ConfigGroups)
    /\ \E r \in {LoadGroupResult(ConfigGroups[loops[k].i], out)} :
          /\ ApplyLoadGroup(r)
          /\ loops' = [loops EXCEPT ![k].i = loops[k].i + 1,
                                    ![k].lastErr = NextLastErr(loops[k].lastErr, r.err),
                                    ![k].att = Append(loops[k].att,
                                                      Attempt(ConfigGroups[loops[k].i], r))]
    /\ UNCHANGED <<stopCh, doneCh, ctxDone, panicked, main, ticks>>

\* LoadAllGroups returned; back to the select (lines 666-669)
LoopLoadDone(k) ==
    /\ Alive /\ k \in DOMAIN loops /\ loops[k].pc = "load" /\ loops[k].i > Len(ConfigGroups)
    /\ loops' = [loops EXCEPT ![k].pc = "select", ![k].i = 0, ![k].lastErr = "", ![k].att = <<>>]
    /\ UNCHANGED <<catalog, byGroup, byName, cacheFile, cacheMeta, stopCh, doneCh, ctxDone,
                   panicked, main, ticks>>

InitLife ==
    /\ catalog = EmptyMap /\ byGroup = EmptyMap /\ byName = EmptyMap
    /\ mu = [w |-> 0, r |-> 0]
    /\ cacheFile \in {EmptyMap, [g \in {"g1"} |-> TxtA]}
    /\ cacheMeta = EmptyMap
    /\ ld = [l \in Loaders |-> IdleLoad]
    /\ rd = [r \in Readers |-> IdleRead]
    /\ calls = 0
    /\ ticks = 0
    /\ LifeIdle /\ FetchIdle /\ CalcIdle

NextLife ==
    /\ \/ StartCall
       \/ \E out \in LifeOutcomes : StartLoadGroup(out)
       \/ StartSpawn
       \/ StopCall
       \/ StopReturn
       \/ CancelCtx
       \/ \E k \in 1..MaxStarts : LoopExit(k)
       \/ \E k \in 1..MaxStarts : LoopTick(k)
       \/ \E k \in 1..MaxStarts, out \in LifeOutcomes : LoopLoadGroup(k, out)
       \/ \E k \in 1..MaxStarts : LoopLoadDone(k)
    /\ UNCHANGED <<mu, ld, rd, calls, fetchVars, calcVars>>

SpecLife == InitLife /\ [][NextLife]_vars

\* the scheduler runs every goroutine that can run; a select whose stop or
\* cancel case is ready takes it sooner or later (Go picks among ready cases
\* at random)
LifeRest == UNCHANGED <<mu, ld, rd, calls, fetchVars, calcVars>>
FairLife ==
    /\ WF_vars(StopReturn /\ LifeRest)
    /\ \A k \in 1..MaxStarts :
          /\ SF_vars(LoopExit(k) /\ LifeRest)
          /\ WF_vars((\E out \in LifeOutcomes : LoopLoadGroup(k, out)) /\ LifeRest)
          /\ WF_vars(LoopLoadDone(k) /\ LifeRest)

SpecLifeFair == InitLife /\ [][NextLife]_vars /\ FairLife

-----------------------------------------------------------------------------
(* Claims about the store under SpecStore.                                 *)

\* the records a batch leaves in the catalog: for each catalog number the last one
BatchFinal(tles) ==
    {tles[i] : i \in {k \in DOMAIN tles :
                        \A j \in DOMAIN tles : j > k => tles[j].NoradID # tles[k].NoradID}}
MergeLoopOver(l) == ld[l].pc = "merge" /\ ld[l].idx > Len(ld[l].tles)

\* C4: while a LoadGroup is merging its batch, what a GetAll that holds the read
\* lock returns (the values of the catalog as it stands) contains either every
\* record of the batch or no record that the batch adds or replaces.
C4_GetAllNeverSeesHalfBatch ==
    \A r \in Readers : rd[r].pc = "rlocked" =>
        \A l \in Loaders : ld[l].pc = "merge" =>
            \/ BatchFinal(ld[l].tles) \subseteq CatalogValues(catalog)
            \/ \A i \in DOMAIN ld[l].tles :
                  ld[l].tles[i] \in CatalogValues(catalog) => ld[l].tles[i] \in ld[l].pre

\* a GetAll holds the read lock while a LoadGroup with a batch of two waits to merge it
C4_Witness ==
    \E r \in Readers, l \in Loaders :
        rd[r].pc = "rlocked" /\ ld[l].pc = "lock" /\ Len(ld[l].tles) = 2

\* C10 as amended: LoadGroup returns an error exactly when the upstream fetch and
\* the read/parse of the cache file both failed; and when the upstream failed and
\* the cache file parsed, then at the end of the merge every record read from the
\* file is in the catalog and listed under the group (next to what was there).
C10_ErrorIffBothFail ==
    \A l \in Loaders :
        /\ ld[l].pc = "done" => (ld[l].res = "load-failed" <=> (ld[l].upErr /\ ld[l].cacheErr))
        /\ ld[l].pc = "done" => ld[l].res \in {"ok", "load-failed"}
        /\ (MergeLoopOver(l) /\ ld[l].fromCache) =>
              /\ ld[l].upErr /\ ~ld[l].cacheErr
              /\ \A t \in BatchFinal(ld[l].tles) :
                    /\ t.NoradID \in DOMAIN catalog /\ catalog[t.NoradID] = t
                    /\ ToLower(ld[l].group) \in DOMAIN byGroup
                    /\ t.NoradID \in Range(byGroup[ToLower(ld[l].group)])

\* the upstream failed, the cache file held two valid records, both were merged
C10_Witness ==
    \E l \in Loaders :
        MergeLoopOver(l) /\ ld[l].fromCache /\ ld[l].upErr /\ Len(ld[l].tles) = 2

\* C10 as stated: after a load from the cache file, the group lists exactly the
\* records of the file.
C10_ExactlyCacheRecords ==
    \A l \in Loaders :
        (MergeLoopOver(l) /\ ld[l].fromCache /\ ld[l].tles # <<>>) =>
            Range(byGroup[ToLower(ld[l].group)]) = {t.NoradID : t \in BatchFinal(ld[l].tles)}

-----------------------------------------------------------------------------
(* Claims about Start and Stop under SpecLife and SpecLifeFair.            *)

\* C1: on a store on which Start has been called, no call to Stop panics, and
\* a Stop that has returned did so after an updater had exited.
C1_StopNeverPanics ==
    main.starts >= 1 =>
        /\ panicked # "Stop"
        /\ main.returned >= 1 => \E k \in DOMAIN loops : loops[k].pc = "exited"

\* C2: at most one updater is alive at any time, and no updater panics on
\* closing the done latch a second time.
C2_AtMostOneLoop ==
    /\ Cardinality(LiveLoops) <= 1
    /\ panicked # "startUpdater"

\* C3: once an updater runs and the context is cancelled or Stop was called,
\* the done latch is closed in the end; and a Stop blocked on the latch returns.
C3_SignalsEndLoopAndStop ==
    /\ ((loops # <<>> /\ (ctxDone \/ stopCh = "closed")) ~> (doneCh = "closed"))
    /\ ((main.pc = "stopWait" /\ loops # <<>>) ~> (main.pc = "idle"))

\* the same for runs in which Start is called once
C3_WithOneStart ==
    /\ ((loops # <<>> /\ (ctxDone \/ stopCh = "closed")) ~> (doneCh = "closed"))
    /\ ((main.pc = "stopWait" /\ loops # <<>>) ~> (main.pc = "idle" \/ main.starts > 1))

-----------------------------------------------------------------------------
(* SpecFetch: one CelestrakClient and the fetch calls running on it.  Time  *)
(* is the wall clock in whole seconds.  Computation takes no time: the      *)
(* clock stands still while a call has a step it can take without waiting;  *)
(* it moves while calls sleep, wait for the mutex or wait for a response.   *)

DefaultRateLimit == 2
Fetches == {1, 2}
Responses == {"200", "200-nogp", "404", "429", "500"}
NoRequestYet == [set |-> FALSE, t |-> 0]

IdleFetch == [pc |-> "idle", attempt |-> 0, wake |-> 0, ctx |-> "live", lastErr |-> "",
              res |-> "", resps |-> <<>>, nreq |-> 0]

RECURSIVE Pow2(_)
Pow2(n) == IF n = 0 THEN 1 ELSE 2 * Pow2(n - 1)

\* backoff := time.Duration(1<<uint(attempt-1)) * time.Second (line 231)
Backoff(attempt) == Pow2(attempt - 1)

\* for attempt := 0; attempt <= c.maxRetries; attempt++ (line 228), mutated
MoreAttemptsOneMore(attempt) == attempt <= maxRetries + 1
\* for attempt := 0; attempt <= c.maxRetries; attempt++ (line 228)
MoreAttempts(attempt) == attempt <= maxRetries

\* doRequest answers ErrCelestrakNotFound (lines 285-286, 302-304), mutated
IsNotFoundStatusOnly(resp) == resp = "404"
\* doRequest answers ErrCelestrakNotFound (lines 285-286, 302-304)
IsNotFound(resp) == resp \in {"404", "200-nogp"}

Cancelled(f) == fe[f].ctx # "live"
Sleeping(f) == fe[f].pc = "rlSleep" /\ now < fe[f].wake

\* a call that has a step to take without waiting for anything
Urgent(f) ==
    \/ fe[f].pc \in {"attempt", "request"}
    \/ fe[f].pc = "rlLock" /\ cmu = 0
    \/ fe[f].pc = "rlSleep" /\ now >= fe[f].wake
    \/ fe[f].pc = "backoff" /\ (now >= fe[f].wake \/ Cancelled(f))

\* fetch is called (line 224)
FetchBegin(f) ==
    /\ fe[f].pc = "idle"
    /\ fe' = [fe EXCEPT ![f].pc = "rlLock"]
    /\ UNCHANGED <<now, lastRequest, cmu, rateLimit, maxRetries, reqLog>>

\* waitForRateLimit: c.mu.Lock(), then time.Sleep(c.rateLimit - elapsed) when
\* elapsed < c.rateLimit (lines 257-263), the mutex given up before the sleep
RLLockReleasing(f) ==
    /\ fe[f].pc = "rlLock" /\ cmu = 0
    /\ LET short == lastRequest.set /\ now - lastRequest.t < rateLimit
       IN /\ cmu' = IF short THEN 0 ELSE f
          /\ fe' = [fe EXCEPT ![f].pc = "rlSleep",
                              ![f].wake = IF short THEN lastRequest.t + rateLimit ELSE now]
    /\ UNCHANGED <<now, lastRequest, rateLimit, maxRetries, reqLog>>

\* waitForRateLimit: c.mu.Lock(), then time.Sleep(c.rateLimit - elapsed) when
\* elapsed < c.rateLimit (lines 257-263)
RLLock(f) ==
    /\ fe[f].pc = "rlLock" /\ cmu = 0
    /\ cmu' = f
    /\ fe' = [fe EXCEPT ![f].pc = "rlSleep",
                        ![f].wake = IF lastRequest.set /\ now - lastRequest.t < rateLimit
                                    THEN lastRequest.t + rateLimit ELSE now]
    /\ UNCHANGED <<now, lastRequest, rateLimit, maxRetries, reqLog>>

\* waitForRateLimit: the sleep is over; c.lastRequest = time.Now() and the
\* deferred c.mu.Unlock() (lines 258, 264); fetch enters its loop
RLStamp(f) ==
    /\ fe[f].pc = "rlSleep" /\ now >= fe[f].wake
    /\ lastRequest' = [set |-> TRUE, t |-> now]
    /\ cmu' = 0
    /\ fe' = [fe EXCEPT ![f].pc = "attempt", ![f].attempt = 0]
    /\ UNCHANGED <<now, rateLimit, maxRetries, reqLog>>

\* fetch: the loop condition and the start of the backoff (lines 228-232, 252)
AttemptTop(f) ==
    /\ fe[f].pc = "attempt"
    /\ fe' = IF ~MoreAttempts(fe[f].attempt)
             THEN [fe EXCEPT ![f].pc = "done", ![f].res = "exhausted"]
             ELSE IF fe[f].attempt > 0
             THEN [fe EXCEPT ![f].pc = "backoff", ![f].wake = now + Backoff(fe[f].attempt)]
             ELSE [fe EXCEPT ![f].pc = "request"]
    /\ UNCHANGED <<now, lastRequest, cmu, rateLimit, maxRetries, reqLog>>

\* fetch: select takes <-ctx.Done() and returns ctx.Err() (lines 233-234)
BackoffCancelled(f) ==
    /\ fe[f].pc = "backoff" /\ Cancelled(f)
    /\ fe' = [fe EXCEPT ![f].pc = "done", ![f].res = "cancelled"]
    /\ UNCHANGED <<now, lastRequest, cmu, rateLimit, maxRetries, reqLog>>

\* fetch: select takes <-time.After(backoff) (line 235)
BackoffOver(f) ==
    /\ fe[f].pc = "backoff" /\ now >= fe[f].wake
    /\ fe' = [fe EXCEPT ![f].pc = "request"]
    /\ UNCHANGED <<now, lastRequest, cmu, rateLimit, maxRetries, reqLog>>

\* doRequest: c.httpClient.Do(req) (lines 269-279).  With the context already
\* cancelled the transport returns the context's error and sends nothing.
DoRequestSend(f) ==
    /\ fe[f].pc = "request"
    /\ IF Cancelled(f)
       THEN /\ fe' = [fe EXCEPT ![f].pc = "attempt", ![f].attempt = fe[f].attempt + 1,
                                ![f].lastErr = "ctx"]
            /\ reqLog' = reqLog
       ELSE /\ fe' = [fe EXCEPT ![f].pc = "inflight", ![f].nreq = fe[f].nreq + 1]
            /\ reqLog' = Append(reqLog, now)
    /\ UNCHANGED <<now, lastRequest, cmu, rateLimit, maxRetries>>

\* doRequest: the response is here (lines 282-306) and fetch acts on the
\* result (lines 240-249)
DoRequestRecv(f, resp) ==
    /\ fe[f].pc = "inflight"
    /\ fe' = IF IsNotFound(resp)
             THEN [fe EXCEPT ![f].pc = "done", ![f].res = "not-found", ![f].lastErr = "not-found",
                             ![f].resps = Append(fe[f].resps, resp)]
             ELSE IF resp \in {"200", "200-nogp"}
             THEN [fe EXCEPT ![f].pc = "done", ![f].res = "ok",
                             ![f].resps = Append(fe[f].resps, resp)]
             ELSE [fe EXCEPT ![f].pc = "attempt", ![f].attempt = fe[f].attempt + 1,
                             ![f].lastErr = resp, ![f].resps = Append(fe[f].resps, resp)]
    /\ UNCHANGED <<now, lastRequest, cmu, rateLimit, maxRetries, reqLog>>

\* doRequest: the context is cancelled while the request is on the wire;
\* c.httpClient.Do returns the context's error (lines 276-279)
DoRequestAborted(f) ==
    /\ fe[f].pc = "inflight" /\ Cancelled(f)
    /\ fe' = [fe EXCEPT ![f].pc = "attempt", ![f].attempt = fe[f].attempt + 1,
                        ![f].lastErr = "ctx"]
    /\ UNCHANGED <<now, lastRequest, cmu, rateLimit, maxRetries, reqLog>>

\* the caller cancels the context it handed to fetch
Cancel(f) ==
    /\ fe[f].pc \notin {"idle", "done"} /\ ~Cancelled(f)
    /\ fe' = [fe EXCEPT ![f].ctx = IF fe[f].pc \in {"rlLock", "rlSleep", "backoff"}
                                   THEN "cancelled-waiting" ELSE "cancelled"]
    /\ UNCHANGED <<now, lastRequest, cmu, rateLimit, maxRetries, reqLog>>

\* a second passes
Tick ==
    /\ now < MaxTime
    /\ \A f \in Fetches : ~Urgent(f)
    /\ now' = now + 1
    /\ UNCHANGED <<lastRequest, cmu, rateLimit, maxRetries, fe, reqLog>>

StoreIdle ==
    /\ catalog = EmptyMap /\ byGroup = EmptyMap /\ byName = EmptyMap
    /\ mu = [w |-> 0, r |-> 0]
    /\ cacheFile = EmptyMap /\ cacheMeta = EmptyMap
    /\ ld = [l \in Loaders |-> IdleLoad]
    /\ rd = [r \in Readers |-> IdleRead]
    /\ calls = 0

\* NewCelestrakClient (lines 118-133) with WithRateLimit and WithMaxRetries
InitFetch ==
    /\ StoreIdle /\ LifeIdle /\ ticks = 0 /\ CalcIdle
    /\ now = 0
    /\ lastRequest = NoRequestYet
    /\ cmu = 0
    /\ rateLimit = DefaultRateLimit
    /\ maxRetries \in 0..MaxRetriesTried
    /\ fe = [f \in Fetches |-> IdleFetch]
    /\ reqLog = <<>>

NextFetch ==
    /\ \/ \E f \in Fetches : FetchBegin(f)
       \/ \E f \in Fetches : RLLock(f)
       \/ \E f \in Fetches : RLStamp(f)
       \/ \E f \in Fetches : AttemptTop(f)
       \/ \E f \in Fetches : BackoffCancelled(f)
       \/ \E f \in Fetches : BackoffOver(f)
       \/ \E f \in Fetches : DoRequestSend(f)
       \/ \E f \in Fetches, resp \in Responses : DoRequestRecv(f, resp)
       \/ \E f \in Fetches : DoRequestAborted(f)
       \/ \E f \in Fetches : Cancel(f)
       \/ Tick
    /\ UNCHANGED <<storeVars, lifeVars, calcVars>>

SpecFetch == InitFetch /\ [][NextFetch]_vars

-----------------------------------------------------------------------------
(* Claims about the Celestrak client under SpecFetch.                       *)

\* C5: the start times of any two HTTP requests of one client differ by at
\* least the rate limit, the retries inside one fetch included.
C5_RequestsSpacedByRateLimit ==
    \A i, j \in DOMAIN reqLog : i < j => reqLog[j] - reqLog[i] >= rateLimit

\* C6 as amended: a call in the rate-limit wait holds the client mutex for the
\* whole wait, the sleep included, so no two calls are in the wait together;
\* it has given the mutex up only once the last-request timestamp is written.
C6_WaiterHoldsMutexThroughSleep ==
    \A f \in Fetches :
        /\ fe[f].pc = "rlSleep" => cmu = f
        /\ fe[f].pc \in {"attempt", "backoff", "request", "inflight", "done"} =>
              cmu # f /\ lastRequest.set

C6_Witness ==
    \E f \in Fetches : Sleeping(f) /\ cmu = f /\ lastRequest.set

\* C6 as stated: a call sleeping in the rate-limit wait does not hold the
\* client mutex.
C6_WaiterSleepsWithoutMutex ==
    \A f \in Fetches : Sleeping(f) => cmu # f

\* C7: when the context of a fetch is cancelled while the fetch is in the
\* rate-limit wait or in a retry backoff, the wait ends before the clock moves,
\* the fetch sends no further request, and it returns the cancelled error.
C7_CancelEndsWaitAtOnce ==
    /\ [][\A f \in Fetches :
             (Cancelled(f) /\ fe[f].pc \in {"rlSleep", "backoff"}) =>
                 (now' = now /\ fe'[f].nreq = fe[f].nreq)]_vars
    /\ [](\A f \in Fetches :
             (fe[f].pc = "done" /\ fe[f].ctx = "cancelled-waiting") =>
                 \/ fe[f].res = "cancelled"
                 \/ fe[f].res = "exhausted" /\ fe[f].lastErr = "ctx")

AlwaysServerError(f) ==
    /\ fe[f].pc = "done" /\ fe[f].ctx = "live" /\ fe[f].resps # <<>>
    /\ \A i \in DOMAIN fe[f].resps : fe[f].resps[i] = "500"

\* C8 as amended: one fetch sends at most max_retries + 1 requests; it sends
\* exactly max_retries + 1 when every response is a 500, and exactly k when the
\* k-th attempt succeeds.
C8_AtMostRetriesPlusOneRequests ==
    \A f \in Fetches :
        /\ fe[f].nreq <= maxRetries + 1
        /\ AlwaysServerError(f) => fe[f].nreq = maxRetries + 1 /\ fe[f].res = "exhausted"
        /\ (fe[f].pc = "done" /\ fe[f].res = "ok") =>
              fe[f].nreq = fe[f].attempt + 1 /\ fe[f].nreq = Len(fe[f].resps)

C8_Witness ==
    \E f \in Fetches : AlwaysServerError(f) /\ maxRetries >= 1 /\ fe[f].nreq = maxRetries + 1

\* C8 as stated: one fetch sends at most max_retries requests, and exactly
\* max_retries when every response is a 500.
C8_AtMostRetriesRequests ==
    \A f \in Fetches :
        /\ fe[f].nreq <= maxRetries
        /\ AlwaysServerError(f) => fe[f].nreq = maxRetries

\* C9: a 404 response, or a 200 response whose body is "No GP data found",
\* is the last response of its fetch: the fetch is over with the not-found
\* error and has sent no request after the one so answered.
C9_NotFoundNeverRetried ==
    \A f \in Fetches : \A i \in DOMAIN fe[f].resps :
        fe[f].resps[i] \in {"404", "200-nogp"} =>
            /\ i = Len(fe[f].resps)
            /\ fe[f].pc = "done" /\ fe[f].res = "not-found"
            /\ fe[f].nreq = i

C9_Witness ==
    \E f \in Fetches :
        /\ fe[f].pc = "done" /\ fe[f].res = "not-found"
        /\ Len(fe[f].resps) = 2 /\ fe[f].resps[2] = "200-nogp"

-----------------------------------------------------------------------------
(* More claims about the store under SpecStore.                             *)

\* the records of a text that parse, found as ParseTLEBatch finds the records
\* but dropping a record that does not parse
RECURSIVE SkipFrom(_, _, _, _)
SkipFrom(lines, i, cur, tles) ==
    IF i > Len(lines)
    THEN IF Len(cur) >= 2 /\ ParseTLE(cur).err = "" THEN tles \cup {ParseTLE(cur).tle} ELSE tles
    ELSE IF lines[i].c = ""
    THEN IF Len(cur) >= 2
         THEN SkipFrom(lines, i + 1, <<>>,
                       IF ParseTLE(cur).err = "" THEN tles \cup {ParseTLE(cur).tle} ELSE tles)
         ELSE SkipFrom(lines, i + 1, cur, tles)
    ELSE LET cur2 == Append(cur, lines[i])
         IN IF tryParseTLE(cur2)
            THEN SkipFrom(lines, i + 1, <<>>,
                          IF ParseTLE(cur2).err = "" THEN tles \cup {ParseTLE(cur2).tle} ELSE tles)
            ELSE SkipFrom(lines, i + 1, cur2, tles)

ValidRecords(text) == SkipFrom(text, 1, <<>>, {})

Listed(group, id) ==
    ToLower(group) \in DOMAIN byGroup /\ id \in Range(byGroup[ToLower(group)])

\* C11: when LoadGroup is over, every valid record of every bundle it obtained
\* (from upstream, from the cache file) is installed under the group, also
\* when the bundle holds an invalid record.
C11_BadRecordSkipped ==
    \A l \in Loaders : ld[l].pc = "done" =>
        \A b \in ld[l].bundles : \A t \in ValidRecords(b) :
            t.NoradID \in DOMAIN catalog /\ Listed(ld[l].group, t.NoradID)

GoodCache(files, key) ==
    /\ key \in DOMAIN files
    /\ ParseTLEBatch(files[key]).err = ""
    /\ ParseTLEBatch(files[key]).tles # <<>>

\* C12: a step of a LoadGroup whose upstream fetch failed, or delivered no
\* valid record, leaves a good cache file of the group as it is.
C12_BadResponseKeepsCache ==
    [][\A l \in Loaders :
          LET key == ToLower(ld[l].group)
          IN (/\ ld[l].pc \in {"cacheRead", "saveFile"}
              /\ ld'[l].pc # ld[l].pc
              /\ ld[l].upErr \/ ld[l].tles = <<>>
              /\ GoodCache(cacheFile, key))
             => (key \in DOMAIN cacheFile' /\ cacheFile'[key] = cacheFile[key])]_vars

NoDup(seq) == \A i, j \in DOMAIN seq : i # j => seq[i] # seq[j]

\* C14: no list of the group index or of the name index holds a catalog number
\* twice, and adding a record under a group a second time leaves the catalog
\* and both indexes as the first addition left them.
C14_IndexNoDuplicates ==
    /\ \A key \in DOMAIN byGroup : NoDup(byGroup[key])
    /\ \A key \in DOMAIN byName : NoDup(byName[key])
    /\ \A t \in {ISS0, ISS1, NONAME}, g \in {"", "g1", "G2"} :
          LET once == addInternal(Store, t, g)
          IN addInternal(once, t, g) = once

C14_Witness ==
    /\ calls = 2 /\ \A l \in Loaders : ld[l].pc = "idle"
    /\ DOMAIN catalog = {2} /\ catalog[2] = NONAME
    /\ DOMAIN byGroup = {"g1"} /\ byGroup["g1"] = <<2>>

-----------------------------------------------------------------------------
(* More claims about the store under SpecLife.                              *)

\* the frames of the LoadAllGroups calls under way: in Start and in the updaters
LoadAllFrames ==
    (IF main.pc = "startLoad" THEN {main} ELSE {})
        \cup {loops[k] : k \in {j \in DOMAIN loops : loops[j].pc = "load"}}

LastFailure(att) ==
    LET failed == {j \in DOMAIN att : att[j].err # ""}
    IN IF failed = {} THEN ""
       ELSE att[CHOOSE j \in failed : \A j2 \in failed : j2 <= j].err

\* C13: a LoadAllGroups under way has tried the configured groups in order, one
\* per turn, whatever failed before; the records of every group that loaded
\* are installed under the group; and when all groups are done the error it
\* returns is the error of the last group that failed, none when none failed.
C13_LoadAllGroupsLastError ==
    \A fr \in LoadAllFrames :
        /\ Len(fr.att) = fr.i - 1
        /\ \A j \in DOMAIN fr.att :
              /\ fr.att[j].group = ConfigGroups[j]
              /\ fr.att[j].err = "" =>
                    \A id \in fr.att[j].ids : id \in DOMAIN catalog /\ Listed(fr.att[j].group, id)
        /\ fr.i > Len(ConfigGroups) =>
              /\ Len(fr.att) = Len(ConfigGroups)
              /\ fr.lastErr = LastFailure(fr.att)

C13_Witness ==
    /\ main.pc = "startLoad" /\ main.i > Len(ConfigGroups)
    /\ main.att[1].err # "" /\ main.att[2].err = "" /\ main.att[2].ids # {}
    /\ main.lastErr = main.att[1].err

-----------------------------------------------------------------------------
(* Ground track.  Times are Unix milliseconds.  A TrackPoint is its         *)
(* longitude in degrees and its timestamp; the latitude plays no part in    *)
(* the splits.  The kernel answers, for a sample time, the longitude the    *)
(* propagated position converts to, or fails.                               *)

antimeridianThreshold == 270

Abs(x) == IF x < 0 THEN -x ELSE x

\* int64(float64(a) * n / d) for a ratio n/d in [0, 1]: rounds toward zero
ScaleTrunc(a, n, d) == IF a >= 0 THEN (a * n) \div d ELSE -(((-a) * n) \div d)

\* an interpolateAntimeridian that takes every crossing for one through +180
interpolateEastward(p1, p2) ==
    <<[Lon |-> 180, Lat |-> p1.Lat, TS |-> p1.TS], [Lon |-> -180, Lat |-> p1.Lat, TS |-> p1.TS]>>

\* interpolateAntimeridian (lines 228-281): the boundary point on the side of
\* p1 and the one on the side of p2.  t is the ratio n/d; the latitudes of the
\* model make (p2.Lat-p1.Lat)*t a whole number.
interpolateAntimeridian(p1, p2) ==
    LET boundaryLon1 == IF p1.Lon > 0 THEN 180 ELSE -180
        boundaryLon2 == IF p1.Lon > 0 THEN -180 ELSE 180
        p2LonUnwrapped == IF p1.Lon > 0 THEN p2.Lon + 360 ELSE p2.Lon - 360
        dLon == p2LonUnwrapped - p1.Lon
        n0 == IF dLon = 0 THEN 1 ELSE IF dLon < 0 THEN -(boundaryLon1 - p1.Lon)
                                      ELSE boundaryLon1 - p1.Lon
        d0 == IF dLon = 0 THEN 2 ELSE Abs(dLon)
        n == IF n0 < 0 THEN 0 ELSE IF n0 > d0 THEN d0 ELSE n0
        interpLat == p1.Lat + ScaleTrunc(p2.Lat - p1.Lat, n, d0)
        interpTS == p1.TS + ScaleTrunc(p2.TS - p1.TS, n, d0)
    IN <<[Lon |-> boundaryLon1, Lat |-> interpLat, TS |-> interpTS],
         [Lon |-> boundaryLon2, Lat |-> interpLat, TS |-> interpTS]>>

\* a splitAtAntimeridian that never sees a crossing
CrossesNever(prev, curr) == FALSE
\* math.Abs(currLon-prevLon) > antimeridianThreshold (line 203)
Crosses(prev, curr) == Abs(curr.Lon - prev.Lon) > antimeridianThreshold

\* a new segment that forgets the sample after the boundary
NewSegmentNoSample(boundaryNext, curr) == <<boundaryNext>>
\* currentSeg = []TrackPoint{boundaryNext, points[i]} (line 212)
NewSegment(boundaryNext, curr) == <<boundaryNext, curr>>

\* the loop of splitAtAntimeridian from points[i] on (lines 197-216)
RECURSIVE SplitFrom(_, _, _, _)
SplitFrom(points, i, segments, currentSeg) ==
    IF i > Len(points) THEN Append(segments, currentSeg)
    ELSE IF Crosses(points[i - 1], points[i])
    THEN LET b == interpolateAntimeridian(points[i - 1], points[i])
         IN SplitFrom(points, i + 1, Append(segments, Append(currentSeg, b[1])),
                      NewSegment(b[2], points[i]))
    ELSE SplitFrom(points, i + 1, segments, Append(currentSeg, points[i]))

splitAtAntimeridian(points) ==
    IF points = <<>> THEN <<>> ELSE SplitFrom(points, 2, <<>>, <<points[1]>>)

\* the first index whose point is after nowMs
FirstAfter(seg, nowMs) ==
    LET hits == {i \in DOMAIN seg : seg[i].TS > nowMs}
    IN IF hits = {} THEN 0 ELSE CHOOSE i \in hits : \A j \in hits : i <= j
\* the loop looking for splitIdx (lines 306-311): the first index whose point
\* is at or after nowMs, counted from 1; 0 when there is none
FirstAtOrAfter(seg, nowMs) ==
    LET hits == {i \in DOMAIN seg : seg[i].TS >= nowMs}
    IN IF hits = {} THEN 0 ELSE CHOOSE i \in hits : \A j \in hits : i <= j

\* the loop of splitPastFuture from segments[k] on (lines 288-332)
RECURSIVE PastFutureFrom(_, _, _, _, _)
PastFutureFrom(segments, k, nowMs, past, future) ==
    IF k > Len(segments) THEN [past |-> past, future |-> future]
    ELSE LET seg == segments[k]
             j == FirstAtOrAfter(seg, nowMs)
         IN IF seg = <<>> THEN PastFutureFrom(segments, k + 1, nowMs, past, future)
            ELSE IF seg[Len(seg)].TS < nowMs
            THEN PastFutureFrom(segments, k + 1, nowMs, Append(past, seg), future)
            ELSE IF seg[1].TS >= nowMs
            THEN PastFutureFrom(segments, k + 1, nowMs, past, Append(future, seg))
            ELSE IF j <= 1
            THEN PastFutureFrom(segments, k + 1, nowMs, past, Append(future, seg))
            ELSE PastFutureFrom(segments, k + 1, nowMs,
                                Append(past, SubSeq(seg, 1, j - 1)),
                                Append(future, SubSeq(seg, j, Len(seg))))

splitPastFuture(segments, nowMs) == PastFutureFrom(segments, 1, nowMs, <<>>, <<>>)

\* a generateTrackPoints that fails at every failed propagation
AlwaysErrorOnPropagate(points) == [err |-> "propagation", points |-> <<>>]
\* what generateTrackPoints returns when Propagate fails (lines 165-172)
OnPropagateError(points) ==
    IF points # <<>> THEN [err |-> "", points |-> points]
    ELSE [err |-> "propagation", points |-> <<>>]

\* the loop of generateTrackPoints from time t on (lines 163-183)
RECURSIVE GenFrom(_, _, _, _, _)
GenFrom(kernel, t, end, step, points) ==
    IF t > end THEN [err |-> "", points |-> points]
    ELSE IF ~kernel[t].ok THEN OnPropagateError(points)
    ELSE GenFrom(kernel, t + step, end, step,
                 Append(points, [Lon |-> kernel[t].lon, Lat |-> kernel[t].lat, TS |-> t]))

generateTrackPoints(kernel, start, end, step) == GenFrom(kernel, start, end, step, <<>>)

\* a GenerateGroundTrack that takes start as the earlier time
LoNoSwap(start, end) == start
\* start after "if end.Before(start) { start, end = end, start }" (lines 103-105)
LoOf(start, end) == IF end < start THEN end ELSE start
\* end after the same statement
HiOf(start, end) == IF end < start THEN start ELSE end

\* GenerateGroundTrack from entry to return (lines 89-135)
NoTrack(err) == [err |-> err, track |-> FALSE, past |-> <<>>, future |-> <<>>]
GenerateGroundTrack(tle, start, end, nowT, step, kernel) ==
    IF tle = "nil" THEN NoTrack("nil-tle")
    ELSE IF step <= 0 THEN NoTrack("invalid-step")
    ELSE IF start = end THEN NoTrack("invalid-range")
    ELSE IF tle = "nolines" THEN NoTrack("creating-propagator")
    ELSE LET g == generateTrackPoints(kernel, LoOf(start, end), HiOf(start, end), step)
             pf == splitPastFuture(splitAtAntimeridian(g.points), nowT)
         IN IF g.err # "" THEN NoTrack(g.err)
            ELSE IF g.points = <<>> THEN [err |-> "", track |-> TRUE, past |-> <<>>, future |-> <<>>]
            ELSE [err |-> "", track |-> TRUE, past |-> pf.past, future |-> pf.future]

-----------------------------------------------------------------------------
(* SpecTrack: one call of GenerateGroundTrack, taken in four steps.         *)

Times == 0..MaxTrackT
\* longitudes with the latitude the kernel gives at each; the latitudes are
\* multiples of 22 so that every interpolated latitude is a whole number
KLons == {-170, -135, 135, 170, 180}
KLat(lon) ==
    CASE lon = -170 -> 44
      [] lon = -135 -> -22
      [] lon = 135 -> 22
      [] lon = 170 -> -44
      [] OTHER -> 0
KFail == [ok |-> FALSE, lon |-> 0, lat |-> 0]
KOut == {[ok |-> TRUE, lon |-> l, lat |-> KLat(l)] : l \in KLons} \cup {KFail}
TLEKinds == {"nil", "nolines", "ok"}

\* the times at which the call asks the kernel
Samples(tle, start, end, step) ==
    IF tle # "ok" \/ step <= 0 \/ start = end THEN {}
    ELSE {t \in LoOf(start, end)..HiOf(start, end) : (t - LoOf(start, end)) % step = 0}

IdleTrack == [pc |-> "called", err |-> "", track |-> FALSE, points |-> <<>>, segments |-> <<>>,
              past |-> <<>>, future |-> <<>>]

\* the checks and NewPropagator (lines 90-111)
GGTValidate ==
    /\ gout.pc = "called"
    /\ gout' = IF gin.tle = "nil" THEN [gout EXCEPT !.pc = "done", !.err = "nil-tle"]
               ELSE IF gin.step <= 0 THEN [gout EXCEPT !.pc = "done", !.err = "invalid-step"]
               ELSE IF gin.start = gin.end THEN [gout EXCEPT !.pc = "done", !.err = "invalid-range"]
               ELSE IF gin.tle = "nolines"
               THEN [gout EXCEPT !.pc = "done", !.err = "creating-propagator"]
               ELSE [gout EXCEPT !.pc = "generate"]
    /\ UNCHANGED <<gin, pin, pout>>

\* generateTrackPoints and the test for an empty list (lines 114-121)
GGTGenerate ==
    /\ gout.pc = "generate"
    /\ LET g == generateTrackPoints(gin.kernel, LoOf(gin.start, gin.end),
                                    HiOf(gin.start, gin.end), gin.step)
       IN gout' = IF g.err # "" THEN [gout EXCEPT !.pc = "done", !.err = g.err]
                  ELSE IF g.points = <<>> THEN [gout EXCEPT !.pc = "done", !.track = TRUE]
                  ELSE [gout EXCEPT !.pc = "splitAnti", !.points = g.points]
    /\ UNCHANGED <<gin, pin, pout>>

\* segments := splitAtAntimeridian(allPoints) (line 124)
GGTSplitAntimeridian ==
    /\ gout.pc = "splitAnti"
    /\ gout' = [gout EXCEPT !.pc = "splitPF", !.segments = splitAtAntimeridian(gout.points)]
    /\ UNCHANGED <<gin, pin, pout>>

\* past, future := splitPastFuture(segments, nowMs) and the return (lines 127-134)
GGTSplitPastFuture ==
    /\ gout.pc = "splitPF"
    /\ LET pf == splitPastFuture(gout.segments, gin.now)
       IN gout' = [gout EXCEPT !.pc = "done", !.track = TRUE, !.past = pf.past,
                               !.future = pf.future]
    /\ UNCHANGED <<gin, pin, pout>>

InitTrack ==
    /\ StoreIdle /\ LifeIdle /\ ticks = 0 /\ FetchIdle
    /\ pin = <<>> /\ pout = <<>>
    /\ ParseIdle /\ TickerIdle
    /\ \E tle \in TLEKinds, start \in Times, end \in Times, nowT \in 0..(MaxTrackT + 1),
          step \in -1..MaxStep :
          \E k \in [Samples(tle, start, end, step) -> KOut] :
              gin = [tle |-> tle, start |-> start, end |-> end, now |-> nowT, step |-> step,
                     kernel |-> [t \in Times |-> IF t \in DOMAIN k THEN k[t] ELSE KFail]]
    /\ gout = IdleTrack

NextTrack ==
    /\ \/ GGTValidate
       \/ GGTGenerate
       \/ GGTSplitAntimeridian
       \/ GGTSplitPastFuture
    /\ UNCHANGED <<storeVars, lifeVars, fetchVars, tin, tout, cfg, tk>>

SpecTrack == InitTrack /\ [][NextTrack]_vars

-----------------------------------------------------------------------------
(* Claims about the ground track, under SpecTrack.                          *)

\* the call returned a track with points
TrackDone == gout.pc = "done" /\ gout.err = "" /\ gout.track

\* the points of a list of segments, in order
RECURSIVE Flat(_)
Flat(segments) == IF segments = <<>> THEN <<>> ELSE Head(segments) \o Flat(Tail(segments))

\* the largest difference of longitude between neighbours inside one segment
\* is at most bound
JumpsAtMost(segments, bound) ==
    \A k \in DOMAIN segments : \A i \in 1..(Len(segments[k]) - 1) :
        Abs(segments[k][i + 1].Lon - segments[k][i].Lon) <= bound

\* C15 (as amended): in every segment produced by splitAtAntimeridian, and in
\* every past and future segment of the track, two consecutive points have
\* longitudes that differ by at most 270 degrees.
C15_SegmentJumpsAtMost270 ==
    /\ gout.pc \in {"splitPF", "done"} => JumpsAtMost(gout.segments, 270)
    /\ TrackDone => JumpsAtMost(gout.past, 270) /\ JumpsAtMost(gout.future, 270)

\* C15 as stated: the difference is strictly less than 270 degrees.
C15_SegmentJumpsBelow270 ==
    gout.pc \in {"splitPF", "done"} => JumpsAtMost(gout.segments, 269)

\* a track that was split at a crossing and still holds a step of exactly 270
C15_Witness ==
    /\ TrackDone
    /\ Len(gout.segments) >= 2
    /\ \E k \in DOMAIN gout.segments : \E i \in 1..(Len(gout.segments[k]) - 1) :
           Abs(gout.segments[k][i + 1].Lon - gout.segments[k][i].Lon) = 270

TimeOrdered(seg) == \A i \in 1..(Len(seg) - 1) : seg[i].TS <= seg[i + 1].TS

\* C16: for time-ordered segments, after splitPastFuture every past point has
\* a timestamp before nowMs and every future point one at or after nowMs, and
\* a segment with points of both kinds is cut at its first point at or after
\* nowMs: the points before it are a past segment, the rest a future segment.
C16_PastBeforeNowFutureFromNow ==
    (TrackDone /\ \A k \in DOMAIN gout.segments : TimeOrdered(gout.segments[k])) =>
        /\ \A k \in DOMAIN gout.past : \A i \in DOMAIN gout.past[k] :
               gout.past[k][i].TS < gin.now
        /\ \A k \in DOMAIN gout.future : \A i \in DOMAIN gout.future[k] :
               gout.future[k][i].TS >= gin.now
        /\ \A k \in DOMAIN gout.segments :
               LET seg == gout.segments[k]
               IN (seg[1].TS < gin.now /\ seg[Len(seg)].TS >= gin.now) =>
                      \E j \in 2..Len(seg) :
                          /\ seg[j].TS >= gin.now
                          /\ \A i \in 1..(j - 1) : seg[i].TS < gin.now
                          /\ SubSeq(seg, 1, j - 1) \in Range(gout.past)
                          /\ SubSeq(seg, j, Len(seg)) \in Range(gout.future)

\* a segment was cut in two at a point whose timestamp is nowMs itself
C16_Witness ==
    /\ TrackDone
    /\ \E k \in DOMAIN gout.segments :
           LET seg == gout.segments[k]
           IN /\ seg[1].TS < gin.now
              /\ \E j \in 2..Len(seg) : seg[j].TS = gin.now /\ seg[j - 1].TS < gin.now
    /\ gout.past # <<>> /\ gout.future # <<>>

\* the interval of the call, earlier end first
TrackLo == IF gin.end < gin.start THEN gin.end ELSE gin.start
TrackHi == IF gin.end < gin.start THEN gin.start ELSE gin.end
\* the number of sample times TrackLo + k*step that are at most TrackHi
AllSamples == ((TrackHi - TrackLo) \div gin.step) + 1
SampleTime(k) == TrackLo + (k - 1) * gin.step
\* the number of samples before the first one whose propagation fails
GoodSamples ==
    LET good == {n \in 0..AllSamples : \A k \in 1..n : gin.kernel[SampleTime(k)].ok}
    IN CHOOSE n \in good : \A m \in good : m <= n
\* the first n samples as points
SamplePoints(n) ==
    [k \in 1..n |-> [Lon |-> gin.kernel[SampleTime(k)].lon,
                     Lat |-> gin.kernel[SampleTime(k)].lat, TS |-> SampleTime(k)]]
CrossCount(S) ==
    Cardinality({k \in 1..(Len(S) - 1) : Abs(S[k + 1].Lon - S[k].Lon) > 270})
\* S can be got from F by deleting points
RECURSIVE IsSubseq(_, _)
IsSubseq(S, F) ==
    IF S = <<>> THEN TRUE
    ELSE IF F = <<>> THEN FALSE
    ELSE IF Head(S) = Head(F) THEN IsSubseq(Tail(S), Tail(F))
    ELSE IsSubseq(S, Tail(F))

\* the past points followed by the future points are in time order and are
\* the first n samples, each once and in order, with two more points for each
\* crossing between them
TrackCovers(n) ==
    LET S == SamplePoints(n)
        F == Flat(gout.past) \o Flat(gout.future)
    IN /\ TimeOrdered(F)
       /\ Len(F) = n + 2 * CrossCount(S)
       /\ IsSubseq(S, F)

\* C17 (as amended): the past points followed by the future points have
\* non-decreasing timestamps and contain, exactly once and in order, each
\* sample time from the earlier end of the interval up to the later end or to
\* the first sample whose propagation fails, whichever comes first, plus
\* exactly two boundary points per antimeridian crossing.
C17_TrackCoversSamplesUntilFailure == TrackDone => TrackCovers(GoodSamples)

\* C17 as stated: every sample time of the interval is there.
C17_TrackCoversAllSamples == TrackDone => TrackCovers(AllSamples)

\* a track with a crossing, cut by nowMs, that stops at a failed sample
C17_Witness ==
    /\ TrackDone
    /\ Len(gout.segments) >= 2
    /\ gout.past # <<>> /\ gout.future # <<>>
    /\ GoodSamples >= 2 /\ GoodSamples < AllSamples

\* what the call returned
TrackResult == [err |-> gout.err, track |-> gout.track, past |-> gout.past,
                future |-> gout.future]

\* with end before start the call returns what it returns with the two exchanged
SwapSilently ==
    (gout.pc = "done" /\ gin.end < gin.start) =>
        TrackResult = GenerateGroundTrack(gin.tle, gin.end, gin.start, gin.now, gin.step,
                                          gin.kernel)

\* C18 (as amended): given a TLE, GenerateGroundTrack fails with invalid-step
\* whenever step <= 0, fails with invalid-range whenever start equals end and
\* step > 0, and with end < start returns the same track as with start and end
\* exchanged; no track is returned in the two error cases.
C18_StepCheckedBeforeRange ==
    /\ (gout.pc = "done" /\ gin.tle # "nil" /\ gin.step <= 0) =>
           gout.err = "invalid-step" /\ ~gout.track /\ gout.past = <<>> /\ gout.future = <<>>
    /\ (gout.pc = "done" /\ gin.tle # "nil" /\ gin.step > 0 /\ gin.start = gin.end) =>
           gout.err = "invalid-range" /\ ~gout.track /\ gout.past = <<>> /\ gout.future = <<>>
    /\ SwapSilently

\* C18 as stated: invalid-range whenever start equals end.
C18_RangeAlwaysReported ==
    /\ (gout.pc = "done" /\ gin.step <= 0) => gout.err = "invalid-step" /\ ~gout.track
    /\ (gout.pc = "done" /\ gin.start = gin.end) => gout.err = "invalid-range" /\ ~gout.track
    /\ SwapSilently

\* a call with end before start returned a track with more than one point
C18_Witness ==
    /\ TrackDone
    /\ gin.end < gin.start
    /\ Len(Flat(gout.past) \o Flat(gout.future)) >= 2

-----------------------------------------------------------------------------
(* The propagator.  A float64 is "fin" (a finite number), "nan" or "inf"    *)
(* (either infinity); the SGP4 kernel is a function from the time to the    *)
(* six components it returns.                                               *)

Floats == {"fin", "nan", "inf"}
Components == {"X", "Y", "Z", "Vx", "Vy", "Vz"}
KernelOut == [Components -> Floats]
AllFin == [c \in Components |-> "fin"]
OneBad(c, v) == [AllFin EXCEPT ![c] = v]
\* the kernel outputs tried inside a range
KRange == {AllFin, OneBad("X", "nan"), OneBad("Vy", "nan"), OneBad("Z", "inf")}

\* isNaN (lines 198-201): f != f
isNaN(f) == f = "nan"

ErrPropagationFailed == "decayed-or-invalid"

\* Propagate (lines 98-131) on a propagator that is not nil, for the kernel
\* output k at time t
Propagate(k, t) ==
    IF isNaN(k["X"]) \/ isNaN(k["Y"]) \/ isNaN(k["Z"])
    THEN [err |-> ErrPropagationFailed, pos |-> <<>>]
    ELSE [err |-> "", pos |-> [X |-> k["X"], Y |-> k["Y"], Z |-> k["Z"], Vx |-> k["Vx"],
                              Vy |-> k["Vy"], Vz |-> k["Vz"], Time |-> t]]

\* a PropagateRange that returns nothing beside the error
NoPrefixOnError(positions) == <<>>
\* return positions, fmt.Errorf(...) (line 153)
PrefixOnError(positions) == positions

-----------------------------------------------------------------------------
(* SpecProp: one call of Propagate, or one call of PropagateRange taken     *)
(* one turn of its loop at a time.                                          *)

IdleProp == [pc |-> "called", t |-> 0, end |-> 0, positions |-> <<>>, err |-> "", last |-> <<>>]

\* Propagate(t), whole (lines 98-131)
PropagateCall ==
    /\ pin.op = "Propagate"
    /\ pout.pc = "called"
    /\ pout' = IF pin.prop = "nil" THEN [pout EXCEPT !.pc = "done", !.err = "nil-tle"]
               ELSE LET r == Propagate(pin.kernel[pin.start], pin.start)
                    IN [pout EXCEPT !.pc = "done", !.err = r.err,
                                    !.positions = IF r.err = "" THEN <<r.pos>> ELSE <<>>,
                                    !.last = <<[k |-> pin.kernel[pin.start], res |-> r]>>]
    /\ UNCHANGED <<pin, gin, gout>>

\* PropagateRange up to the loop (lines 136-148)
PRValidate ==
    /\ pin.op = "PropagateRange"
    /\ pout.pc = "called"
    /\ pout' = IF pin.prop = "nil" THEN [pout EXCEPT !.pc = "done", !.err = "nil-tle"]
               ELSE IF pin.step <= 0 THEN [pout EXCEPT !.pc = "done", !.err = "invalid-step"]
               ELSE [pout EXCEPT !.pc = "loop",
                                 !.t = IF pin.end < pin.start THEN pin.end ELSE pin.start,
                                 !.end = IF pin.end < pin.start THEN pin.start ELSE pin.end]
    /\ UNCHANGED <<pin, gin, gout>>

\* one turn of the loop (lines 150-157)
PRStep ==
    /\ pout.pc = "loop"
    /\ pout.t <= pout.end
    /\ LET r == Propagate(pin.kernel[pout.t], pout.t)
       IN pout' = IF r.err # ""
                  THEN [pout EXCEPT !.pc = "done", !.err = "propagation at: " \o r.err,
                                    !.positions = PrefixOnError(pout.positions),
                                    !.last = <<[k |-> pin.kernel[pout.t], res |-> r]>>]
                  ELSE [pout EXCEPT !.t = pout.t + pin.step,
                                    !.positions = Append(pout.positions, r.pos),
                                    !.last = <<[k |-> pin.kernel[pout.t], res |-> r]>>]
    /\ UNCHANGED <<pin, gin, gout>>

\* the loop is over: return positions, nil (line 160)
PRReturn ==
    /\ pout.pc = "loop"
    /\ pout.t > pout.end
    /\ pout' = [pout EXCEPT !.pc = "done"]
    /\ UNCHANGED <<pin, gin, gout>>

PropTimes == 0..MaxTrackT
PropSamples(prop, start, end, step) ==
    IF prop # "ok" \/ step <= 0 THEN {}
    ELSE {t \in LoOf(start, end)..HiOf(start, end) : (t - LoOf(start, end)) % step = 0}

InitProp ==
    /\ StoreIdle /\ LifeIdle /\ ticks = 0 /\ FetchIdle
    /\ gin = <<>> /\ gout = <<>>
    /\ ParseIdle /\ TickerIdle
    /\ \/ \E prop \in {"nil", "ok"}, t \in PropTimes, k \in KernelOut :
              pin = [op |-> "Propagate", prop |-> prop, start |-> t, end |-> t, step |-> 0,
                     kernel |-> [x \in PropTimes |-> IF x = t /\ prop = "ok" THEN k ELSE AllFin]]
       \/ \E prop \in {"nil", "ok"}, start \in PropTimes, end \in PropTimes,
             step \in -1..MaxStep :
              \E k \in [PropSamples(prop, start, end, step) -> KRange] :
                  pin = [op |-> "PropagateRange", prop |-> prop, start |-> start, end |-> end,
                         step |-> step,
                         kernel |-> [x \in PropTimes |-> IF x \in DOMAIN k THEN k[x] ELSE AllFin]]
    /\ pout = IdleProp

NextProp ==
    /\ \/ PropagateCall
       \/ PRValidate
       \/ PRStep
       \/ PRReturn
    /\ UNCHANGED <<storeVars, lifeVars, fetchVars, tin, tout, cfg, tk>>

SpecProp == InitProp /\ [][NextProp]_vars

-----------------------------------------------------------------------------
(* Claims about the propagator, under SpecProp.                             *)

RangeDone == pin.op = "PropagateRange" /\ pin.prop = "ok" /\ pout.pc = "done"
PropLo == IF pin.end < pin.start THEN pin.end ELSE pin.start
PropHi == IF pin.end < pin.start THEN pin.start ELSE pin.end
PropTotal == ((PropHi - PropLo) \div pin.step) + 1
PropTime(k) == PropLo + (k - 1) * pin.step
\* the samples at which Propagate fails
FailedSamples == {k \in 1..PropTotal : Propagate(pin.kernel[PropTime(k)], PropTime(k)).err # ""}
FirstFailed == CHOOSE k \in FailedSamples : \A m \in FailedSamples : k <= m
\* the positions of the first n samples
PositionsOf(n) == [k \in 1..n |-> Propagate(pin.kernel[PropTime(k)], PropTime(k)).pos]

\* C19: PropagateRange with step > 0 returns the positions at start,
\* start+step, ... up to the last time <= end, in that order (start and end
\* being exchanged first when end < start); if Propagate fails at the k-th
\* sample it returns exactly the k-1 positions computed before it together
\* with an error; with step <= 0 it returns an error and no positions.
C19_RangeReturnsPrefixAndError ==
    RangeDone =>
        IF pin.step <= 0 THEN pout.err # "" /\ pout.positions = <<>>
        ELSE IF FailedSamples = {}
        THEN /\ pout.err = ""
             /\ pout.positions = PositionsOf(PropTotal)
             /\ \A k \in 1..PropTotal : pout.positions[k].Time = PropTime(k)
        ELSE /\ pout.err # ""
             /\ pout.positions = PositionsOf(FirstFailed - 1)

\* a range whose third or later sample failed: the positions before it came
\* back with the error
C19_Witness ==
    /\ RangeDone
    /\ pin.step > 0
    /\ pout.err # ""
    /\ Len(pout.positions) >= 2

Finite(f) == f = "fin"

\* C20: Propagate reports decayed-or-invalid whenever any of the six
\* components returned by the kernel is NaN or infinite, and every position
\* it returns without error has all six components finite.
C20_NonFiniteAlwaysReported ==
    \A i \in DOMAIN pout.last :
        LET k == pout.last[i].k
            res == pout.last[i].res
        IN /\ (\E c \in Components : ~Finite(k[c])) => res.err = ErrPropagationFailed
           /\ res.err = "" => \A c \in Components : Finite(res.pos[c])

-----------------------------------------------------------------------------
(* SpecParse: one call of ParseTLE or of ParseTLEBatch on a text made of    *)
(* up to MaxRecords records, each followed by a blank line or not.          *)

\* a line 1 and a line 2 whose columns 3-7 are cat
CatLine1(cat) == [Line1(0, 0) EXCEPT !.cat = cat]
CatLine2(cat) == [Line2(0, 0) EXCEPT !.cat = cat]
\* the 69 characters of the line followed by one more character
LongLine(l) == [l EXCEPT !.len = TLELineLength + 1]
\* the line without its last character
ShortLine(l) == [l EXCEPT !.len = TLELineLength - 1, !.ck = FALSE]
\* a name line whose first character is the digit 1, as in "1KUNS-PF"
DigitNameLine(n) == [NameLine(n) EXCEPT !.c = "1"]

Rec2(cat) == <<CatLine1(cat), CatLine2(cat)>>
Rec3(nameLine, cat) == <<nameLine, CatLine1(cat), CatLine2(cat)>>

\* records every line of which is a well-formed TLE line
ValidRecs ==
    { Rec2(Cols(1)),
      Rec3(NameLine("ISS"), Cols(2)),
      Rec3(DigitNameLine("1KUNS-PF"), Cols(3)),
      Rec2(<<" ", " ", " ", " ", "5">>),
      Rec2(<<"A", "0", "0", "0", "1">>),
      Rec2(<<"Z", "9", "9", "9", "9">>) }
\* records with a line that is too long or too short, or with columns 3-7
\* that are not a catalog number
OddRecs ==
    { <<LongLine(Line1(4, 0)), LongLine(Line2(4, 0))>>,
      <<ShortLine(Line1(4, 0)), Line2(4, 0)>>,
      Rec2(Cols(0)),
      Rec2(<<"-", "0", "0", "0", "1">>),
      Rec2(<<"I", "0", "0", "0", "1">>),
      Rec2(<<"A", "-", "0", "0", "1">>) }
RecKinds == ValidRecs \cup OddRecs

\* the lines of the text: every record, then a blank line where blank says so
RECURSIVE TextOf(_, _)
TextOf(recs, blank) ==
    IF recs = <<>> THEN <<>>
    ELSE Head(recs) \o (IF Head(blank) THEN <<Blank>> ELSE <<>>) \o TextOf(Tail(recs), Tail(blank))

IdleParse == [pc |-> "called", op |-> "", err |-> "", tles |-> <<>>]

\* ParseTLE(lines), whole (lines 69-104), on the lines of the one record
ParseTLECall ==
    /\ tout.pc = "called"
    /\ Len(tin.recs) = 1
    /\ LET p == ParseTLE(tin.recs[1])
       IN tout' = [pc |-> "done", op |-> "ParseTLE", err |-> p.err,
                   tles |-> IF p.err = "" THEN <<p.tle>> ELSE <<>>]
    /\ UNCHANGED <<tin, gin, gout, pin, pout, cfg, tk>>

\* ParseTLEBatch(data), whole (lines 107-151)
ParseTLEBatchCall ==
    /\ tout.pc = "called"
    /\ LET p == ParseTLEBatch(TextOf(tin.recs, tin.blank))
       IN tout' = [pc |-> "done", op |-> "ParseTLEBatch", err |-> p.err, tles |-> p.tles]
    /\ UNCHANGED <<tin, gin, gout, pin, pout, cfg, tk>>

InitParse ==
    /\ StoreIdle /\ LifeIdle /\ ticks = 0 /\ FetchIdle
    /\ gin = <<>> /\ gout = <<>> /\ pin = <<>> /\ pout = <<>> /\ TickerIdle
    /\ \E n \in 1..MaxRecords :
           \E recs \in [1..n -> RecKinds], blank \in [1..n -> BOOLEAN] :
               tin = [recs |-> recs, blank |-> blank]
    /\ tout = IdleParse

NextParse ==
    /\ \/ ParseTLECall
       \/ ParseTLEBatchCall
    /\ UNCHANGED <<storeVars, lifeVars, fetchVars>>

SpecParse == InitParse /\ [][NextParse]_vars

-----------------------------------------------------------------------------
(* Claims about the parser, under SpecParse.                                *)

\* C21: every record returned by ParseTLE or ParseTLEBatch has a Line1 and a
\* Line2 of exactly 69 characters that end in the line's checksum digit; a
\* line shorter or longer than 69 characters never yields a record.
C21_LinesExactly69 ==
    \A i \in DOMAIN tout.tles :
        /\ tout.tles[i].Line1.len = TLELineLength /\ tout.tles[i].Line1.ck
        /\ tout.tles[i].Line2.len = TLELineLength /\ tout.tles[i].Line2.ck

\* C22: every record returned by the parser has a catalog number in
\* 1..339999; columns 3-7 that decode to 0 or to a negative number are rejected.
C22_CatalogNumberInRange ==
    \A i \in DOMAIN tout.tles : tout.tles[i].NoradID \in 1..339999

\* the name of a record of the text: its first line when it has three
NameOfRec(rec) == IF Len(rec) = 3 THEN rec[1].txt ELSE ""

\* C26: for a text made of valid records in 2-line or 3-line layout, with or
\* without blank lines between them, ParseTLEBatch returns exactly one TLE
\* per record, in the order of the text.
C26_OneTLEPerRecord ==
    (tout.pc = "done" /\ tout.op = "ParseTLEBatch" /\ Range(tin.recs) \subseteq ValidRecs) =>
        /\ tout.err = ""
        /\ Len(tout.tles) = Len(tin.recs)
        /\ \A i \in DOMAIN tin.recs :
               /\ tout.tles[i].Name = NameOfRec(tin.recs[i])
               /\ tout.tles[i].Line1 = tin.recs[i][Len(tin.recs[i]) - 1]
               /\ tout.tles[i].Line2 = tin.recs[i][Len(tin.recs[i])]

-----------------------------------------------------------------------------
(* SpecTicker: a TLEStoreConfig, the store built from it and the ticker of  *)
(* its updater.  Durations and the clock count half minutes.                *)

\* time.Minute and DefaultTLEUpdateInterval (6 hours) in half minutes
Minute == 2
DefaultTLEUpdateInterval == 720

\* the update_interval values a configuration is written with
Intervals == -1..MaxInterval

\* TLEStoreConfig.Validate, the part about UpdateInterval (lines 291-293)
ValidInterval(d) == IF d < Minute THEN DefaultTLEUpdateInterval ELSE d

IdleTicker == [pc |-> "config", interval |-> 0, period |-> 0, next |-> 0, clock |-> 0,
               fires |-> <<>>]

\* the caller runs cfg.Validate() on the configuration it holds
Validate ==
    /\ tk.pc = "config"
    /\ ~cfg.nil /\ ~cfg.validated
    /\ cfg' = [cfg EXCEPT !.UpdateInterval = ValidInterval(cfg.UpdateInterval),
                          !.validated = TRUE]
    /\ UNCHANGED <<tk, tin, tout, gin, gout, pin, pout>>

\* NewTLEStore(cfg) (lines 368-390): a nil cfg is replaced by DefaultTLEStoreConfig()
NewTLEStore ==
    /\ tk.pc = "config"
    /\ tk' = [tk EXCEPT !.pc = "built",
                        !.interval = IF cfg.nil THEN DefaultTLEUpdateInterval
                                     ELSE cfg.UpdateInterval]
    /\ UNCHANGED <<cfg, tin, tout, gin, gout, pin, pout>>

\* Start: go s.startUpdater(ctx) (line 406)
StartUpdater ==
    /\ tk.pc = "built"
    /\ tk' = [tk EXCEPT !.pc = "spawned"]
    /\ UNCHANGED <<cfg, tin, tout, gin, gout, pin, pout>>

\* startUpdater: ticker := NewSafeTicker(s.config.UpdateInterval) (lines 653, 681-684);
\* time.NewTicker panics when the duration is not positive
UpdaterNewTicker ==
    /\ tk.pc = "spawned"
    /\ tk' = IF tk.interval <= 0 THEN [tk EXCEPT !.pc = "panicked"]
             ELSE [tk EXCEPT !.pc = "ticking", !.period = tk.interval,
                             !.next = tk.clock + tk.interval]
    /\ UNCHANGED <<cfg, tin, tout, gin, gout, pin, pout>>

\* half a minute passes; a ticker that is due fires first
TimePasses ==
    /\ tk.pc \in {"built", "spawned", "ticking"}
    /\ tk.clock < MaxClock
    /\ tk.pc = "ticking" => tk.clock < tk.next
    /\ tk' = [tk EXCEPT !.clock = tk.clock + 1]
    /\ UNCHANGED <<cfg, tin, tout, gin, gout, pin, pout>>

\* case <-ticker.C (line 663): the scheduled update starts
TickerFires ==
    /\ tk.pc = "ticking"
    /\ tk.clock = tk.next
    /\ tk' = [tk EXCEPT !.fires = Append(tk.fires, tk.clock), !.next = tk.next + tk.period]
    /\ UNCHANGED <<cfg, tin, tout, gin, gout, pin, pout>>

\* case <-s.stopCh (line 660): the updater returns and stops the ticker
UpdaterStops ==
    /\ tk.pc = "ticking"
    /\ tk' = [tk EXCEPT !.pc = "stopped"]
    /\ UNCHANGED <<cfg, tin, tout, gin, gout, pin, pout>>

InitTicker ==
    /\ StoreIdle /\ LifeIdle /\ ticks = 0 /\ FetchIdle
    /\ gin = <<>> /\ gout = <<>> /\ pin = <<>> /\ pout = <<>> /\ ParseIdle
    /\ \/ cfg = [nil |-> TRUE, UpdateInterval |-> 0, validated |-> FALSE]
       \/ \E d \in Intervals : cfg = [nil |-> FALSE, UpdateInterval |-> d, validated |-> FALSE]
    /\ tk = IdleTicker

NextTicker ==
    /\ \/ Validate
       \/ NewTLEStore
       \/ StartUpdater
       \/ UpdaterNewTicker
       \/ TimePasses
       \/ TickerFires
       \/ UpdaterStops
    /\ UNCHANGED <<storeVars, lifeVars, fetchVars>>

SpecTicker == InitTicker /\ [][NextTicker]_vars

-----------------------------------------------------------------------------
(* Claims about the ticker, under SpecTicker.                               *)

\* C23: the period of the refresh ticker is at least one minute for every
\* configured update_interval: a smaller value, zero and negative values
\* included, is clamped before the ticker is created and never reaches
\* NewSafeTicker as it is.
C23_TickerPeriodAtLeastMinute ==
    /\ tk.pc # "panicked"
    /\ tk.pc \in {"ticking", "stopped"} => tk.period >= Minute
    /\ \A i \in 1..(Len(tk.fires) - 1) : tk.fires[i + 1] - tk.fires[i] >= Minute

-----------------------------------------------------------------------------
(* Claims about locking, upserts and the cache metadata, under SpecStore.   *)

\* where a LoadGroup is busy with the network or with the cache directory
InIO(l) == ld[l].pc \in {"fetching", "cacheRead", "saveFile", "metaRead", "metaWrite"}

\* C24: no thread holds the store's reader-writer lock while it performs an
\* upstream fetch or a cache file read or write; in LoadGroup the exclusive
\* lock is held only while the batch that was already built is merged.
C24_NoLockDuringIO ==
    \A l \in Loaders :
        /\ InIO(l) => mu.w # l
        /\ mu.w = l => ld[l].pc = "merge"

\* one LoadGroup writes its cache file while the other merges under the lock
C24_Witness ==
    \E l, k \in Loaders : l # k /\ ld[l].pc = "saveFile" /\ mu.w = k /\ ld[k].pc = "merge"

\* C27: over any sequence of Add, AddWithGroup and LoadGroup, a catalog number
\* once in the store stays in it and its record carries that number; Count
\* never decreases, also when a later bundle of the group no longer lists it.
C27_CatalogNumbersStay ==
    [][/\ DOMAIN catalog \subseteq DOMAIN catalog'
       /\ \A id \in DOMAIN catalog' : catalog'[id].NoradID = id
       /\ Cardinality(DOMAIN catalog') >= Cardinality(DOMAIN catalog)]_vars

\* a LoadGroup of g1 whose bundle lists catalog number 1 only has merged its
\* batch, and number 2, listed under g1 before, is still in the catalog
C27_Witness ==
    \E l \in Loaders :
        /\ ld[l].pc = "done" /\ ld[l].res = "ok" /\ ld[l].group = "g1"
        /\ ld[l].bundles = {TxtB}
        /\ 2 \in DOMAIN catalog
        /\ "g1" \in DOMAIN byGroup /\ 2 \in Range(byGroup["g1"])

\* C28: every catalog number listed under key k of the name index belongs to
\* a catalog record whose lowercased name is k, also after a record was
\* upserted with another name.
C28_NameIndexMatchesNames ==
    \A k \in DOMAIN byName : \A i \in DOMAIN byName[k] :
        /\ byName[k][i] \in DOMAIN catalog
        /\ ToLower(catalog[byName[k][i]].Name) = k

\* a LoadGroup that fetched its bundle, wrote the cache file and the metadata
\* without an I/O error, and returned
FetchedAndSaved(l) ==
    /\ ld[l].pc = "done" /\ ld[l].res = "ok"
    /\ ~ld[l].upErr /\ ~ld[l].saveErr /\ ~ld[l].metaErr

\* C29: when two LoadGroup calls for different groups both fetch and save,
\* cache_meta.json afterwards holds an entry for both groups.
C29_MetaKeepsBothGroups ==
    \A l, k \in Loaders :
        (l # k /\ FetchedAndSaved(l) /\ FetchedAndSaved(k) /\ ToLower(ld[l].group) # ToLower(ld[k].group)) =>
            {ToLower(ld[l].group), ToLower(ld[k].group)} \subseteq DOMAIN cacheMeta

-----------------------------------------------------------------------------
(* More claims about the ground track, under SpecTrack.                     *)

\* the indexes i of the sampled points with a jump of more than 270 degrees
\* of longitude between point i-1 and point i
CrossingsOf(points) ==
    {i \in 2..Len(points) : Abs(points[i].Lon - points[i - 1].Lon) > 270}
Between(x, a, b) == (a <= x /\ x <= b) \/ (b <= x /\ x <= a)

\* C25: when consecutive samples p, q have |q.lon - p.lon| > 270,
\* splitAtAntimeridian closes the current segment, after p, with an inserted
\* point at +180 if p.lon > 0 and at -180 otherwise, and opens the next
\* segment with an inserted point at the opposite sign followed by q; both
\* inserted points carry the same latitude and the same timestamp, each
\* between the values of p and q.
C25_BoundaryPointsAtCrossing ==
    gout.pc \in {"splitPF", "done"} /\ gout.points # <<>> =>
        /\ Len(gout.segments) = Cardinality(CrossingsOf(gout.points)) + 1
        /\ \A i \in CrossingsOf(gout.points) :
               LET k == Cardinality({j \in CrossingsOf(gout.points) : j <= i})
                   p == gout.points[i - 1]
                   q == gout.points[i]
                   closing == gout.segments[k]
                   opening == gout.segments[k + 1]
                   out == closing[Len(closing)]
                   in == opening[1]
               IN /\ Len(closing) >= 2 /\ closing[Len(closing) - 1] = p
                  /\ Len(opening) >= 2 /\ opening[2] = q
                  /\ out.Lon = IF p.Lon > 0 THEN 180 ELSE -180
                  /\ in.Lon = -out.Lon
                  /\ out.Lat = in.Lat /\ out.TS = in.TS
                  /\ Between(out.Lat, p.Lat, q.Lat)
                  /\ Between(out.TS, p.TS, q.TS)

\* a crossing from west to east whose boundary points lie strictly between
\* the two samples in latitude
C25_Witness ==
    /\ TrackDone
    /\ \E i \in CrossingsOf(gout.points) :
           LET k == Cardinality({j \in CrossingsOf(gout.points) : j <= i})
               p == gout.points[i - 1]
               q == gout.points[i]
               out == gout.segments[k][Len(gout.segments[k])]
           IN /\ p.Lon < 0 /\ out.Lon = -180
              /\ out.Lat # p.Lat /\ out.Lat # q.Lat

\* the call was made with a usable TLE, a positive step and start # end
TrackArgsValid == gin.tle = "ok" /\ gin.step > 0 /\ gin.start # gin.end

\* C30: if propagation fails at a sample after an earlier sample succeeded,
\* GenerateGroundTrack returns the track built from the samples before the
\* failure with a nil error; it returns an error, and no track, only when
\* the very first sample fails.
C30_PartialTrackWithoutError ==
    (gout.pc = "done" /\ TrackArgsValid) =>
        IF gin.kernel[TrackLo].ok
        THEN /\ gout.err = "" /\ gout.track
             /\ Len(Flat(gout.past) \o Flat(gout.future)) >=  GoodSamples
             /\ IsSubseq(SamplePoints(GoodSamples), Flat(gout.past) \o Flat(gout.future))
             /\ \A i \in DOMAIN (Flat(gout.past) \o Flat(gout.future)) :
                    (Flat(gout.past) \o Flat(gout.future))[i].TS <= SampleTime(GoodSamples)
        ELSE gout.err = "propagation" /\ ~gout.track

\* the second or a later sample failed and the track of the samples before it
\* came back without an error
C30_Witness ==
    /\ gout.pc = "done" /\ TrackArgsValid
    /\ GoodSamples >= 1 /\ GoodSamples < AllSamples
    /\ ~gin.kernel[SampleTime(GoodSamples + 1)].ok
    /\ gout.err = "" /\ gout.track /\ gout.past \o gout.future # <<>>

====
